---- MODULE Spec2Model ----
(***************************************************************************)
(* A model of the thesis/paper analysis backend: the record-store routes,  *)
(* the three analysis calls with their JSON-parse fallback, the similarity *)
(* ranker, the batch-analyze loop, the sanitizer and prepare-for-storage,  *)
(* the bearer check, PDF extraction, the analyze route and the event loop  *)
(* that runs the handlers.  Each component has its own specification over  *)
(* the shared variables; the variables of the other components stay at     *)
(* their initial values.                                                   *)
(***************************************************************************)
EXTENDS Integers, Sequences, FiniteSets, TLC

VARIABLES
    theses,         \* ids of the rows of table 'theses'
    papers,         \* ids of the rows of table 'papers'
    resp,           \* the response to the last record-store request
    acall,          \* the last call of the analysis service and its outcome
    sim,            \* the last similar-papers request and its response
    files,          \* batch-analyze: the uploaded files of the request
    pc,             \* batch-analyze: the handler's position
    idx,            \* batch-analyze: the position of the loop in files
    paper_analysis, \* batch-analyze: local variable of the handler
    basic_info,     \* batch-analyze: local variable, kept across iterations
    uuids,          \* batch-analyze: the number of paper ids generated
    results,        \* batch-analyze: the results list
    errors,         \* batch-analyze: the errors list
    ops,            \* batch-analyze: the external operations issued, in order
    stored,         \* batch-analyze: the rows the store accepted
    bresp,          \* batch-analyze: the response
    san,            \* the last call of sanitize_for_db: argument and result
    prep,           \* the last call of prepare_for_supabase
    auth,           \* the last run of verify_api_key
    pdf,            \* the last run of _extract_text_from_pdf
    areq,           \* the last POST /api/papers/analyze and its response
    astored,        \* the rows POST /api/papers/analyze got into the store
    running,        \* event loop: the request whose handler holds the thread
    rpc,            \* event loop: each request's position
    upd             \* the last PUT /api/papers/{paper_id} and the update it sent

batchVars == <<files, pc, idx, paper_analysis, basic_info, uuids, results, errors,
               ops, stored, bresp>>

\* sanitizer and prepare-for-storage
sanVars == <<san, prep>>

\* the analyze route
analyzeVars == <<areq, astored>>

\* the event loop
loopVars == <<running, rpc>>

vars == <<theses, papers, resp, acall, sim, batchVars, sanVars, auth, pdf,
          analyzeVars, loopVars, upd>>

\* the variables of the components above, which the first five leave alone
laterVars == <<sanVars, auth, pdf, analyzeVars, loopVars, upd>>

\* the variables of the first five components
firstVars == <<theses, papers, resp, acall, sim, batchVars>>

\* the variables the record-store routes leave alone
nonStore == <<acall, sim, batchVars, laterVars>>

\* the variables the analysis service leaves alone
nonAnalysis == <<theses, papers, resp, sim, batchVars, laterVars>>

\* the variables the similarity ranker leaves alone
nonSimilar == <<theses, papers, resp, acall, batchVars, laterVars>>

\* the variables the sanitizer and prepare-for-storage leave alone
nonSan == <<firstVars, auth, pdf, analyzeVars, loopVars, upd>>

\* the variables verify_api_key leaves alone
nonAuth == <<firstVars, sanVars, pdf, analyzeVars, loopVars, upd>>

\* the variables PDF extraction leaves alone
nonPdf == <<firstVars, sanVars, auth, analyzeVars, loopVars, upd>>

\* the variables the analyze route leaves alone
nonAnalyze == <<firstVars, sanVars, auth, pdf, loopVars, upd>>

\* the variables the event loop leaves alone
nonLoop == <<firstVars, sanVars, auth, pdf, analyzeVars, upd>>

\* the variables the update route leaves alone
nonUpdate == <<firstVars, sanVars, auth, pdf, analyzeVars, loopVars>>

\* the variables batch-analyze leaves alone
nonBatch == <<theses, papers, resp, acall, sim, laterVars>>

(***************************************************************************)
(* JSON values.  A leaf (string, number, list of strings, null) is a       *)
(* record of one fixed shape; a JSON object is a TLA+ record (or <<>> for  *)
(* the empty object) whose fields are JSON values.                         *)
(***************************************************************************)
JStr(s) == [ty |-> "str", s |-> s, n |-> 0, l |-> <<>>]

JNum(n) == [ty |-> "num", s |-> "", n |-> n, l |-> <<>>]

JList(l) == [ty |-> "list", s |-> "", n |-> 0, l |-> l]

JNull == [ty |-> "null", s |-> "", n |-> 0, l |-> <<>>]

IsLeaf(v) == DOMAIN v = {"ty", "s", "n", "l"}

\* isinstance(v, dict)
IsMapping(v) == ~IsLeaf(v)

EmptyObj == <<>>

\* the key paths of the leaves of a JSON value
RECURSIVE LeafPaths(_)
LeafPaths(v) ==
    IF IsLeaf(v) THEN {<<>>}
    ELSE UNION {{<<k>> \o p : p \in LeafPaths(v[k])} : k \in DOMAIN v}

RECURSIVE AtPath(_, _)
AtPath(v, p) == IF p = <<>> THEN v ELSE AtPath(v[Head(p)], Tail(p))

(***************************************************************************)
(* Exceptions and HTTP responses.  A handler body either returns or raises;*)
(* an exception is a record naming its class, and for an HTTPException its *)
(* status code.                                                            *)
(***************************************************************************)
\* the value slot of an outcome that carries no value
NoValue == JNull

Returned(v) == [t |-> "return", exc |-> "", status |-> 200, msg |-> <<>>, v |-> v]

\* HTTPException(status_code=code, detail=msg)
RaisedHTTP(code, msg) ==
    [t |-> "raise", exc |-> "HTTPException", status |-> code, msg |-> msg, v |-> NoValue]

\* an exception of class cls whose str() is the concatenation of msg
Raised(cls, msg) ==
    [t |-> "raise", exc |-> cls, status |-> 0, msg |-> msg, v |-> NoValue]

\* `except Exception as e: raise HTTPException(status_code=500, detail=str(e))`:
\* HTTPException is itself a subclass of Exception, so the clause catches the
\* handler's own 404 as well as store errors.
ExceptExceptionTo500(outcome) ==
    IF outcome.t = "raise" THEN RaisedHTTP(500, outcome.msg) ELSE outcome

\* The status the framework sends: 200 for a returned body, the code of the
\* HTTPException that left the handler.
StatusOf(outcome) == IF outcome.t = "return" THEN 200 ELSE outcome.status

(***************************************************************************)
(* The record store.  Ids is the bounded universe of row ids.  A select,   *)
(* update or delete by id either fails (network, API error) or yields the  *)
(* matching rows.  `.single()` on zero rows belongs to the store client,   *)
(* which is not part of the repository: it either yields empty data or     *)
(* raises, and both are modelled.                                          *)
(***************************************************************************)
MaxIds == 3

Ids == 1..MaxIds

\* what the store can yield for a query by id on `table`: the row, empty
\* data, an error raised because `.single()` found no row, or another error
StoreYields(table, id, single) ==
    IF id \in table
    THEN {"row", "error"}
    ELSE IF single THEN {"nodata", "norow_raised", "error"} ELSE {"nodata", "error"}

\* the body of a lookup-by-id handler after the store answered `y`
LookupBody(y) ==
    CASE y \in {"error", "norow_raised"} -> Raised("APIError", <<"store error">>)
      [] y = "nodata"                    -> RaisedHTTP(404, <<"not found">>)
      [] OTHER                           -> Returned(JStr("row"))

\* the whole handler: body inside try / except Exception
LookupHandler(y) == ExceptExceptionTo500(LookupBody(y))

Response(op, id, y, outcome) ==
    [op |-> op, id |-> id, store |-> y, status |-> StatusOf(outcome)]

NoResponse == [op |-> "none", id |-> 0, store |-> "none", status |-> 0]

get_thesis(id) ==
    \E y \in StoreYields(theses, id, TRUE) :
        /\ resp' = Response("get_thesis", id, y, LookupHandler(y))
        /\ UNCHANGED <<theses, papers, nonStore>>

create_thesis ==
    \E id \in Ids \ theses, y \in {"row", "error"} :
        /\ theses' = IF y = "row" THEN theses \cup {id} ELSE theses
        /\ resp' = Response("create_thesis", id, y,
                            ExceptExceptionTo500(IF y = "row" THEN Returned(JStr("row"))
                                                 ELSE Raised("APIError", <<"store error">>)))
        /\ UNCHANGED <<papers, nonStore>>

update_thesis(id) ==
    \E y \in StoreYields(theses, id, FALSE) :
        /\ resp' = Response("update_thesis", id, y, LookupHandler(y))
        /\ UNCHANGED <<theses, papers, nonStore>>

delete_thesis(id) ==
    \E y \in StoreYields(theses, id, FALSE) :
        /\ theses' = IF y = "row" THEN theses \ {id} ELSE theses
        /\ resp' = Response("delete_thesis", id, y, LookupHandler(y))
        /\ UNCHANGED <<papers, nonStore>>

get_paper_details(id) ==
    \E y \in StoreYields(papers, id, TRUE) :
        /\ resp' = Response("get_paper_details", id, y, LookupHandler(y))
        /\ UNCHANGED <<theses, papers, nonStore>>

\* update_paper_analysis: the existence check, then the update itself, which
\* may fail on its own
update_paper_analysis(id) ==
    \E y \in StoreYields(papers, id, TRUE), u \in {"row", "error"} :
        /\ resp' = Response("update_paper_analysis", id, y,
                            ExceptExceptionTo500(
                                IF y = "row" /\ u = "error" THEN Raised("APIError", <<"store error">>)
                                ELSE LookupBody(y)))
        /\ UNCHANGED <<theses, papers, nonStore>>

\* delete_paper: the existence check, then the delete
delete_paper(id) ==
    \E y \in StoreYields(papers, id, TRUE), d \in {"row", "error"} :
        /\ papers' = IF y = "row" /\ d = "row" THEN papers \ {id} ELSE papers
        /\ resp' = Response("delete_paper", id, y,
                            ExceptExceptionTo500(
                                IF y = "row" /\ d = "error" THEN Raised("APIError", <<"store error">>)
                                ELSE LookupBody(y)))
        /\ UNCHANGED <<theses, nonStore>>

\* a paper row written by the analyze routes (the insert of a fresh uuid)
insert_paper ==
    \E id \in Ids \ papers :
        /\ papers' = papers \cup {id}
        /\ UNCHANGED <<theses, resp, nonStore>>

(***************************************************************************)
(* The schema each analysis kind asks the model for (the system prompts),  *)
(* as the set of key paths, and the paths of its 1-10 score fields.        *)
(***************************************************************************)
Kinds == {"paper", "citations", "gaps"}

SchemaPaths(kind) ==
    CASE kind = "paper" ->
           {<<"basic_info", "title">>, <<"basic_info", "authors">>,
            <<"basic_info", "year_of_publication">>, <<"basic_info", "type">>,
            <<"basic_info", "link_to_article">>,
            <<"analysis", "relevance_score">>, <<"analysis", "relevance_explanation">>,
            <<"analysis", "main_findings">>,
            <<"analysis", "methods", "methodology_type">>,
            <<"analysis", "methods", "specific_methods">>,
            <<"analysis", "methods", "data_collection">>,
            <<"analysis", "methods", "analysis_techniques">>,
            <<"analysis", "gaps_and_limitations", "identified_gaps">>,
            <<"analysis", "gaps_and_limitations", "limitations">>,
            <<"analysis", "gaps_and_limitations", "methodology_limitations">>,
            <<"quality_metrics", "methodology_score">>,
            <<"quality_metrics", "data_quality_score">>,
            <<"quality_metrics", "innovation_score">>,
            <<"quality_metrics", "impact_score">>,
            <<"meta_info", "reviewer_initials">>, <<"meta_info", "review_date">>,
            <<"meta_info", "additional_notes">>}
      [] kind = "citations" ->
           {<<"citation_metrics", "total_citations">>,
            <<"citation_metrics", "unique_sources">>,
            <<"citation_metrics", "year_range">>,
            <<"citation_metrics", "most_cited_authors">>,
            <<"citation_quality", "recency", "score">>,
            <<"citation_quality", "recency", "analysis">>,
            <<"citation_quality", "recency", "recent_citations">>,
            <<"citation_quality", "authority", "score">>,
            <<"citation_quality", "authority", "key_references">>,
            <<"citation_quality", "authority", "seminal_works">>,
            <<"citation_quality", "diversity", "score">>,
            <<"citation_quality", "diversity", "source_types">>,
            <<"citation_quality", "diversity", "field_coverage">>,
            <<"recommendations", "missing_citations">>,
            <<"recommendations", "citation_improvements">>,
            <<"recommendations", "key_papers_to_add">>}
      [] OTHER ->
           {<<"research_gaps", "identified_gaps">>,
            <<"research_gaps", "priority_levels", "high_priority">>,
            <<"research_gaps", "priority_levels", "medium_priority">>,
            <<"research_gaps", "priority_levels", "low_priority">>,
            <<"research_gaps", "gap_categories", "methodological">>,
            <<"research_gaps", "gap_categories", "theoretical">>,
            <<"research_gaps", "gap_categories", "empirical">>,
            <<"future_directions", "short_term">>,
            <<"future_directions", "long_term">>,
            <<"future_directions", "interdisciplinary">>,
            <<"implementation", "required_resources">>,
            <<"implementation", "potential_challenges">>,
            <<"implementation", "suggested_approaches">>,
            <<"implementation", "collaboration_needs">>}

\* the fields the prompts describe as a score from 1 to 10
ScorePaths(kind) ==
    CASE kind = "paper" ->
           {<<"analysis", "relevance_score">>,
            <<"quality_metrics", "methodology_score">>,
            <<"quality_metrics", "data_quality_score">>,
            <<"quality_metrics", "innovation_score">>,
            <<"quality_metrics", "impact_score">>}
      [] kind = "citations" ->
           {<<"citation_quality", "recency", "score">>,
            <<"citation_quality", "authority", "score">>,
            <<"citation_quality", "diversity", "score">>}
      [] OTHER -> {}

TopKeys(kind) == {Head(p) : p \in SchemaPaths(kind)}

(***************************************************************************)
(* The fallback structures the three calls return when nothing parses.     *)
(***************************************************************************)
PaperFallback ==
    [basic_info |->
        [title |-> JStr("Analysis of document"),
         authors |-> JList(<<"Not extracted">>),
         year_of_publication |-> JStr("Not extracted"),
         type |-> JStr("Not extracted"),
         link_to_article |-> JStr("Not found")],
     analysis |->
        [relevance_score |-> JNum(5),
         relevance_explanation |-> JStr("Relevance could not be determined"),
         main_findings |-> JList(<<"Could not extract findings from text">>),
         methods |->
            [methodology_type |-> JStr("Not specified"),
             specific_methods |-> JList(<<"Not extracted">>),
             data_collection |-> JStr("Not specified"),
             analysis_techniques |-> JList(<<"Not extracted">>)],
         gaps_and_limitations |->
            [identified_gaps |-> JList(<<"Not extracted">>),
             limitations |-> JList(<<"Not extracted">>),
             methodology_limitations |-> JList(<<"Not extracted">>)]],
     quality_metrics |->
        [methodology_score |-> JNum(5),
         data_quality_score |-> JNum(5),
         innovation_score |-> JNum(5),
         impact_score |-> JNum(5)],
     meta_info |->
        [reviewer_initials |-> JStr("N/A"),
         review_date |-> JStr("Current"),
         additional_notes |-> JList(<<"Analysis failed to produce structured output">>)]]

CitationFallback ==
    [citation_metrics |->
        [total_citations |-> JNum(0),
         unique_sources |-> JNum(0),
         year_range |-> JStr("Not determined"),
         most_cited_authors |-> JList(<<"Not extracted">>)],
     citation_quality |->
        [recency |->
            [score |-> JNum(5),
             analysis |-> JStr("Citation dates could not be determined"),
             recent_citations |-> JNum(0)],
         authority |->
            [score |-> JNum(5),
             key_references |-> JList(<<"Not determined">>),
             seminal_works |-> JList(<<"Not determined">>)],
         diversity |->
            [score |-> JNum(5),
             source_types |-> JList(<<"Not determined">>),
             field_coverage |-> JStr("Not determined")]],
     recommendations |->
        [missing_citations |-> JList(<<"Not determined">>),
         citation_improvements |-> JList(<<"Not determined">>),
         key_papers_to_add |-> JList(<<"Not determined">>)]]

GapFallback ==
    [research_gaps |->
        [identified_gaps |-> JList(<<"Not extracted">>),
         priority_levels |->
            [high_priority |-> JList(<<"Not determined">>),
             medium_priority |-> JList(<<"Not determined">>),
             low_priority |-> JList(<<"Not determined">>)],
         gap_categories |->
            [methodological |-> JList(<<"Not determined">>),
             theoretical |-> JList(<<"Not determined">>),
             empirical |-> JList(<<"Not determined">>)]],
     future_directions |->
        [short_term |-> JList(<<"Not determined">>),
         long_term |-> JList(<<"Not determined">>),
         interdisciplinary |-> JList(<<"Not determined">>)],
     implementation |->
        [required_resources |-> JList(<<"Not determined">>),
         potential_challenges |-> JList(<<"Not determined">>),
         suggested_approaches |-> JList(<<"Not determined">>),
         collaboration_needs |-> JList(<<"Not determined">>)]]

Fallback(kind) ==
    CASE kind = "paper"     -> PaperFallback
      [] kind = "citations" -> CitationFallback
      [] OTHER              -> GapFallback

(***************************************************************************)
(* The model's response.  The provider call either raises or yields a      *)
(* message whose content is None or a text.  A text is a sequence of       *)
(* whitespace-separated segments: prose that is not JSON, the opening      *)
(* fence ```json, a bare fence ```, or the text of one JSON value.         *)
(***************************************************************************)
Text == [seg |-> "text", j |-> JNull]

FenceOpen == [seg |-> "open", j |-> JNull]

FenceClose == [seg |-> "close", j |-> JNull]

Json(v) == [seg |-> "json", j |-> v]

\* sample JSON values a model may answer with: an object of each kind's
\* schema, an empty object, a number and a list
PaperSample ==
    [PaperFallback EXCEPT !.basic_info.title = JStr("Paper One"),
                          !.basic_info.type = JStr("review"),
                          !.analysis.relevance_score = JNum(8)]

CitationSample == [CitationFallback EXCEPT !.citation_metrics.total_citations = JNum(12)]

GapSample == [GapFallback EXCEPT !.research_gaps.identified_gaps = JList(<<"gap">>)]

JsonSamples == {PaperSample, CitationSample, GapSample, EmptyObj, JNum(42), JList(<<"a">>)}

Segments == {Text, FenceOpen, FenceClose} \cup {Json(v) : v \in JsonSamples}

MaxSegs == 3

SeqsUpTo(S, n) == UNION {[1..k -> S] : k \in 0..n}

ProviderError == [t |-> "raise", isnull |-> FALSE, segs |-> <<>>]

NullContent == [t |-> "content", isnull |-> TRUE, segs |-> <<>>]

TextContent(segs) == [t |-> "content", isnull |-> FALSE, segs |-> segs]

ProviderResults ==
    {ProviderError, NullContent} \cup {TextContent(c) : c \in SeqsUpTo(Segments, MaxSegs)}

\* json.loads(content): a text parses iff it is exactly one JSON value;
\* None is a TypeError, not a JSONDecodeError
json_loads(c) ==
    IF c.isnull THEN Raised("TypeError", <<"the JSON object must be str">>)
    ELSE IF Len(c.segs) = 1 /\ c.segs[1].seg = "json" THEN Returned(c.segs[1].j)
    ELSE Raised("JSONDecodeError", <<"Expecting value">>)

\* "```json" in content
ContainsFence(segs) == \E i \in 1..Len(segs) : segs[i].seg = "open"

\* the least index of segs at or after `from` whose segment is in `marks`,
\* Len(segs) + 1 when there is none
RECURSIVE FirstMark(_, _, _)
FirstMark(segs, from, marks) ==
    IF from > Len(segs) THEN Len(segs) + 1
    ELSE IF segs[from].seg \in marks THEN from
    ELSE FirstMark(segs, from + 1, marks)

\* content.split("```json")[1].split("```")[0].strip(): what follows the first
\* opening fence, up to the next fence of either form
FencedBlock(segs) ==
    LET open == FirstMark(segs, 1, {"open"})
        stop == FirstMark(segs, open + 1, {"open", "close"})
    IN  SubSeq(segs, open + 1, stop - 1)

ErrorPrefix(kind) ==
    CASE kind = "paper"     -> "OpenAI analysis error: "
      [] kind = "citations" -> "OpenAI citation analysis error: "
      [] OTHER              -> "OpenAI research gap analysis error: "

\* the outer `except Exception as e: raise Exception(f"<prefix>{str(e)}")`
WrapProviderError(kind, outcome) ==
    IF outcome.t = "raise"
    THEN Raised("Exception", <<ErrorPrefix(kind)>> \o outcome.msg)
    ELSE outcome

\* a variant that lets the parse error of an unfenced text escape instead of
\* substituting the fallback structure
ParseWithFallbackReraise(kind, c) ==
    LET first == json_loads(c) IN
    IF first.t = "return" THEN first
    ELSE IF first.exc = "JSONDecodeError" /\ ContainsFence(c.segs)
    THEN json_loads(TextContent(FencedBlock(c.segs)))
    ELSE first

\* the inner try / except json.JSONDecodeError of one analysis call
ParseWithFallback(kind, c) ==
    LET first == json_loads(c) IN
    IF first.t = "return" THEN first
    ELSE IF first.exc = "JSONDecodeError"
    THEN IF ContainsFence(c.segs)
         THEN json_loads(TextContent(FencedBlock(c.segs)))
         ELSE Returned(Fallback(kind))
    ELSE first

\* one analysis call: the provider call and the parse, inside the outer try
AnalyzeOutcome(kind, prov) ==
    WrapProviderError(kind,
        IF prov.t = "raise" THEN Raised("APIError", <<"provider error">>)
        ELSE ParseWithFallback(kind, prov))

NoCall == [kind |-> "none", prov |-> ProviderError, out |-> Returned(JNull)]

CallRecord(kind, prov) ==
    [kind |-> kind, prov |-> prov, out |-> AnalyzeOutcome(kind, prov)]

\* The service keeps no state between calls, so one call from the idle state
\* stands for every call.
analyze_paper ==
    /\ acall = NoCall
    /\ \E prov \in ProviderResults : acall' = CallRecord("paper", prov)
    /\ UNCHANGED nonAnalysis

analyze_citations ==
    /\ acall = NoCall
    /\ \E prov \in ProviderResults : acall' = CallRecord("citations", prov)
    /\ UNCHANGED nonAnalysis

analyze_research_gaps ==
    /\ acall = NoCall
    /\ \E prov \in ProviderResults : acall' = CallRecord("gaps", prov)
    /\ UNCHANGED nonAnalysis

(***************************************************************************)
(* Python helpers of the similarity ranker.                                *)
(***************************************************************************)
\* d.get(k, default)
Get(d, k, default) == IF k \in DOMAIN d THEN d[k] ELSE default

\* the characters of the strings whose text the code inspects
Chars ==
    [s \in {"2014", "2015", "2020", "2021", "2025", "2026", "2030", " 2020 ",
            "-5", "Unknown", "n.d.", ""} |->
        CASE s = "2014"    -> <<"2", "0", "1", "4">>
          [] s = "2015"    -> <<"2", "0", "1", "5">>
          [] s = "2020"    -> <<"2", "0", "2", "0">>
          [] s = "2021"    -> <<"2", "0", "2", "1">>
          [] s = "2025"    -> <<"2", "0", "2", "5">>
          [] s = "2026"    -> <<"2", "0", "2", "6">>
          [] s = "2030"    -> <<"2", "0", "3", "0">>
          [] s = " 2020 "  -> <<" ", "2", "0", "2", "0", " ">>
          [] s = "-5"      -> <<"-", "5">>
          [] s = "Unknown" -> <<"U", "n", "k", "n", "o", "w", "n">>
          [] s = "n.d."    -> <<"n", ".", "d", ".">>
          [] OTHER         -> <<>>]

Digits == {"0", "1", "2", "3", "4", "5", "6", "7", "8", "9"}

DigitVal(c) ==
    CASE c = "0" -> 0 [] c = "1" -> 1 [] c = "2" -> 2 [] c = "3" -> 3 [] c = "4" -> 4
      [] c = "5" -> 5 [] c = "6" -> 6 [] c = "7" -> 7 [] c = "8" -> 8 [] OTHER -> 9

\* str.strip() on a character sequence
RECURSIVE Strip(_)
Strip(cs) ==
    IF cs = <<>> THEN cs
    ELSE IF Head(cs) = " " THEN Strip(Tail(cs))
    ELSE IF cs[Len(cs)] = " " THEN Strip(SubSeq(cs, 1, Len(cs) - 1))
    ELSE cs

RECURSIVE DigitsValue(_, _)
DigitsValue(cs, acc) ==
    IF cs = <<>> THEN acc ELSE DigitsValue(Tail(cs), 10 * acc + DigitVal(Head(cs)))

\* int(x) of a Python value: an int is itself; a string parses as optional
\* surrounding blanks, an optional sign and one or more digits, else
\* ValueError; None and the containers are a TypeError
py_int(x) ==
    CASE x.ty = "num" -> Returned(JNum(x.n))
      [] x.ty = "str" ->
            LET cs     == Strip(Chars[x.s])
                signed == cs # <<>> /\ Head(cs) \in {"-", "+"}
                ds     == IF signed THEN Tail(cs) ELSE cs
            IN  IF ds # <<>> /\ \A i \in 1..Len(ds) : ds[i] \in Digits
                THEN Returned(JNum(IF signed /\ Head(cs) = "-"
                                   THEN 0 - DigitsValue(ds, 0) ELSE DigitsValue(ds, 0)))
                ELSE Raised("ValueError", <<"invalid literal for int()">>)
      [] OTHER -> Raised("TypeError", <<"int() argument must be a string or a number">>)

Abs(n) == IF n < 0 THEN 0 - n ELSE n

YEAR_WINDOW == 5

\* a variant with a strict window: years exactly 5 apart earn nothing
YearTermStrict(source_year, paper_year) ==
    IF source_year # JStr("Unknown") /\ paper_year # JStr("Unknown")
    THEN LET a == py_int(source_year) IN
         IF a.t = "raise"
         THEN IF a.exc = "ValueError" THEN Returned(JNum(0)) ELSE a
         ELSE LET b == py_int(paper_year) IN
              IF b.t = "raise"
              THEN IF b.exc = "ValueError" THEN Returned(JNum(0)) ELSE b
              ELSE IF Abs(a.v.n - b.v.n) < YEAR_WINDOW
                   THEN Returned(JNum(1)) ELSE Returned(JNum(0))
    ELSE Returned(JNum(0))

\* inside the try block, given the outcomes a and b of int(source_year) and
\* int(paper_year): a ValueError of either is caught and adds nothing, any
\* other exception leaves the block, and two integers are compared.  int() of
\* the source year runs first, so its exception is the one that shows.
YearPoints(a, b) ==
    IF a.t = "raise"
    THEN IF a.exc = "ValueError" THEN Returned(JNum(0)) ELSE a
    ELSE IF b.t = "raise"
         THEN IF b.exc = "ValueError" THEN Returned(JNum(0)) ELSE b
         ELSE IF Abs(a.v.n - b.v.n) <= YEAR_WINDOW
              THEN Returned(JNum(1)) ELSE Returned(JNum(0))

\* the year term of one candidate: the try / except ValueError block.  It
\* returns the points to add, or raises what the block does not catch.
YearTerm(source_year, paper_year) ==
    IF source_year # JStr("Unknown") /\ paper_year # JStr("Unknown")
    THEN YearPoints(py_int(source_year), py_int(paper_year))
    ELSE Returned(JNum(0))

TYPE_POINTS == 2

\* the type term: paper.get("paper_type") == basic_info.get("type")
TypeTerm(src_info, paper) ==
    IF Get(paper, "paper_type", JNull) = Get(src_info, "type", JNull)
    THEN TYPE_POINTS ELSE 0

\* score = type points, then score += year points unless the year block raised
AddTerms(type_points, year_term) ==
    IF year_term.t = "raise" THEN year_term
    ELSE Returned(JNum(type_points + year_term.v.n))

\* a variant that counts the year only for a candidate of the same type
SimilarityScoreYearNeedsType(src_info, paper) ==
    IF ~IsMapping(src_info)
    THEN Raised("AttributeError", <<"object has no attribute 'get'">>)
    ELSE LET y == YearTerm(Get(src_info, "year_of_publication", JStr("Unknown")),
                           Get(paper, "year_of_publication", JStr("Unknown")))
         IN  IF y.t = "raise" THEN y
             ELSE Returned(JNum(IF TypeTerm(src_info, paper) = 0 THEN 0
                                ELSE TypeTerm(src_info, paper) + y.v.n))

\* the body of the scoring loop for one candidate: the score, or the
\* exception that leaves the loop (basic_info.get on a value that is no mapping
\* is an AttributeError)
SimilarityScore(src_info, paper) ==
    IF ~IsMapping(src_info)
    THEN Raised("AttributeError", <<"object has no attribute 'get'">>)
    ELSE AddTerms(TypeTerm(src_info, paper),
                  YearTerm(Get(src_info, "year_of_publication", JStr("Unknown")),
                           Get(paper, "year_of_publication", JStr("Unknown"))))

\* {**paper, "similarity_score": score}
Annotated(paper, score) ==
    [k \in DOMAIN paper \cup {"similarity_score"} |->
        IF k = "similarity_score" THEN score ELSE paper[k]]

\* one iteration of the scoring loop, given the outcome sc of scoring `paper`
\* and the outcome of the iterations after it: an exception ends the loop
ScoreStep(paper, sc, rest) ==
    IF sc.t = "raise" THEN sc
    ELSE IF rest.t = "raise" THEN rest
    ELSE Returned(<<Annotated(paper, sc.v.n)>> \o rest.v)

\* the scoring loop: the annotated candidates in store order, or the first
\* exception a candidate raises
RECURSIVE ScoreAll(_, _)
ScoreAll(src_info, all_papers) ==
    IF all_papers = <<>> THEN Returned(<<>>)
    ELSE ScoreStep(Head(all_papers),
                   SimilarityScore(src_info, Head(all_papers)),
                   ScoreAll(src_info, Tail(all_papers)))

\* insert p after every element whose score is at least p's
RECURSIVE InsertDesc(_, _)
InsertDesc(sorted, p) ==
    IF sorted = <<>> THEN <<p>>
    ELSE IF Head(sorted).similarity_score >= p.similarity_score
         THEN <<Head(sorted)>> \o InsertDesc(Tail(sorted), p)
         ELSE <<p>> \o sorted

RECURSIVE SortFrom(_, _)
SortFrom(sorted, rest) ==
    IF rest = <<>> THEN sorted ELSE SortFrom(InsertDesc(sorted, Head(rest)), Tail(rest))

\* a variant that sorts the reversed list: descending, but equal scores come
\* out in reverse store order
SortByScoreDescUnstable(similar_papers) ==
    LET n == Len(similar_papers)
        reversed == [i \in 1..n |-> similar_papers[n + 1 - i]]
    IN  SortFrom(<<>>, reversed)

\* similar_papers.sort(key=score, reverse=True): descending, and stable (the
\* reverse flag keeps equal keys in their original order)
SortByScoreDesc(similar_papers) == SortFrom(<<>>, similar_papers)

\* s[:limit]
SliceTo(s, limit) ==
    IF limit >= 0
    THEN SubSeq(s, 1, IF limit < Len(s) THEN limit ELSE Len(s))
    ELSE SubSeq(s, 1, IF Len(s) + limit > 0 THEN Len(s) + limit ELSE 0)

\* `k in v` for a key name k: a mapping tests its keys; a string or a list
\* tests its contents, which in the sample values never hold a key name; None
\* and numbers raise
InTest(k, v) ==
    IF IsMapping(v) THEN Returned(k \in DOMAIN v)
    ELSE IF v.ty \in {"str", "list"} THEN Returned(FALSE)
    ELSE Raised("TypeError", <<"argument is not iterable">>)

\* v[k] after `k in v` held
Subscript(v, k) == IF IsMapping(v) THEN v[k] ELSE JNull

IsList(v) == IsLeaf(v) /\ v.ty = "list"

\* v.get(k, default): only a mapping has .get
GetAttr(v, k, default) ==
    IF IsMapping(v) THEN Returned(Get(v, k, default))
    ELSE Raised("AttributeError", <<"object has no attribute 'get'">>)

\* the keyword list built from the source's analysis: methodology type,
\* specific methods, main findings, paper type.  The list is not used by the
\* scoring, but building it can raise.
Keywords(src_info, analysis_info) ==
    LET hasM == InTest("methods", analysis_info) IN
    IF hasM.t = "raise" THEN hasM
    ELSE
    LET methods == IF hasM.v THEN Subscript(analysis_info, "methods") ELSE JNull
        hasT == IF hasM.v THEN InTest("methodology_type", methods) ELSE Returned(FALSE)
    IN
    IF hasT.t = "raise" THEN hasT
    ELSE
    LET k1 == IF hasT.v THEN <<Subscript(methods, "methodology_type")>> ELSE <<>>
        hasS == IF hasM.v THEN InTest("specific_methods", methods) ELSE Returned(FALSE)
        k2 == IF hasS.v /\ IsList(Subscript(methods, "specific_methods"))
              THEN [i \in 1..Len(methods.specific_methods.l) |->
                       JStr(methods.specific_methods.l[i])]
              ELSE <<>>
        hasF == InTest("main_findings", analysis_info)
        k3 == IF hasF.v /\ IsList(Subscript(analysis_info, "main_findings"))
              THEN [i \in 1..Len(analysis_info.main_findings.l) |->
                       JStr(analysis_info.main_findings.l[i])]
              ELSE <<>>
        hasTy == InTest("type", src_info)
    IN
    IF hasTy.t = "raise" THEN hasTy
    ELSE Returned(k1 \o k2 \o k3 \o
                  (IF hasTy.v THEN <<Subscript(src_info, "type")>> ELSE <<>>))

\* after the scoring loop: sort, slice, return
RankAndSlice(scored, limit) ==
    IF scored.t = "raise" THEN scored
    ELSE Returned(SliceTo(SortByScoreDesc(scored.v), limit))

\* the body of get_similar_papers: src is what the first select yields ("row"
\* with the source paper, or no row), fetch what the second select yields
SimilarBody(srcYield, source_paper, fetchYield, all_papers, limit) ==
    IF srcYield \in {"error", "norow_raised"} THEN Raised("APIError", <<"store error">>)
    ELSE IF srcYield = "nodata" THEN RaisedHTTP(404, <<"Paper not found">>)
    ELSE
    LET src_analysis == Get(source_paper, "paper_analysis", EmptyObj)
        bi == GetAttr(src_analysis, "basic_info", EmptyObj)
    IN
    IF bi.t = "raise" THEN bi
    ELSE
    LET ai == GetAttr(src_analysis, "analysis", EmptyObj)
        kw == Keywords(bi.v, ai.v)
    IN
    IF kw.t = "raise" THEN kw
    ELSE IF fetchYield = "error" THEN Raised("APIError", <<"store error">>)
    ELSE IF all_papers = <<>> THEN Returned(<<>>)
    ELSE RankAndSlice(ScoreAll(bi.v, all_papers), limit)

(***************************************************************************)
(* The inputs of get_similar_papers: the source paper the first select     *)
(* yields, the candidate rows the second select yields (in store order,    *)
(* the source excluded), and the limit.                                    *)
(***************************************************************************)
AnalysisFull ==
    [methods |-> [methodology_type |-> JStr("survey"),
                  specific_methods |-> JList(<<"interviews">>)],
     main_findings |-> JList(<<"finding">>)]

BasicInfo(year) == [type |-> JStr("A"), year_of_publication |-> year]

SourceAnalyses ==
    {[basic_info |-> BasicInfo(JStr("2020")), analysis |-> AnalysisFull],
     [basic_info |-> BasicInfo(JStr("2020")), analysis |-> EmptyObj],
     [basic_info |-> BasicInfo(JStr("2020")), analysis |-> [methods |-> JNull]],
     [basic_info |-> BasicInfo(JNum(2020)), analysis |-> AnalysisFull],
     [basic_info |-> BasicInfo(JNull), analysis |-> AnalysisFull],
     [basic_info |-> BasicInfo(JStr("Unknown")), analysis |-> AnalysisFull],
     [basic_info |-> BasicInfo(JStr("n.d.")), analysis |-> AnalysisFull],
     [basic_info |-> [type |-> JStr("A")], analysis |-> AnalysisFull],
     [basic_info |-> EmptyObj, analysis |-> AnalysisFull],
     JNull}

SourcePaper(pa) == [id |-> 0, paper_analysis |-> pa]

CandidateAttrs ==
    {<<JStr("A"), JStr("2021")>>, <<JStr("B"), JStr("2020")>>,
     <<JStr("A"), JStr("2030")>>, <<JStr("A"), JStr("2025")>>,
     <<JStr("B"), JStr("2014")>>, <<JStr("A"), JNull>>,
     <<JStr("B"), JStr("Unknown")>>, <<JNull, JStr("n.d.")>>}

MaxCands == 3

\* the rows of a select: ids are distinct, here the position in store order
Rows(attrs) ==
    [i \in 1..Len(attrs) |->
        [id |-> i, paper_type |-> attrs[i][1], year_of_publication |-> attrs[i][2]]]

DEFAULT_LIMIT == 5

Limits == {-1, 0, 1, 2, DEFAULT_LIMIT}

NoSimilar ==
    [srcYield |-> "none", source |-> SourcePaper(JNull), fetchYield |-> "none",
     cands |-> <<>>, limit |-> 0, status |-> 0, body |-> <<>>]

\* a request and what it was answered: the status and the returned list
Answered(srcYield, source_paper, fetchYield, all_papers, limit, out) ==
    [srcYield |-> srcYield, source |-> source_paper,
     fetchYield |-> fetchYield, cands |-> all_papers, limit |-> limit,
     status |-> StatusOf(out),
     body |-> IF out.t = "return" THEN out.v ELSE <<>>]

\* GET /api/papers/{id}/similar: the body inside try / except Exception
SimilarResponse(srcYield, source_paper, fetchYield, all_papers, limit) ==
    Answered(srcYield, source_paper, fetchYield, all_papers, limit,
             ExceptExceptionTo500(
                 SimilarBody(srcYield, source_paper, fetchYield, all_papers, limit)))

\* The route keeps nothing between requests, so one request from the idle
\* state stands for every request.  The first select finds no source paper:
get_similar_papers_no_source ==
    /\ sim = NoSimilar
    /\ \E y \in {"nodata", "norow_raised", "error"} :
          sim' = SimilarResponse(y, SourcePaper(JNull), "none", <<>>, DEFAULT_LIMIT)
    /\ UNCHANGED nonSimilar

\* the second select fails
get_similar_papers_fetch_error ==
    /\ sim = NoSimilar
    /\ \E pa \in SourceAnalyses :
          sim' = SimilarResponse("row", SourcePaper(pa), "error", <<>>, DEFAULT_LIMIT)
    /\ UNCHANGED nonSimilar

\* both selects answer
get_similar_papers ==
    /\ sim = NoSimilar
    /\ \E pa \in SourceAnalyses, attrs \in SeqsUpTo(CandidateAttrs, MaxCands),
          limit \in Limits :
          sim' = SimilarResponse("row", SourcePaper(pa), "rows", Rows(attrs), limit)
    /\ UNCHANGED nonSimilar

(***************************************************************************)
(* POST /api/papers/batch-analyze.  A file is its name and what the        *)
(* providers and the store will answer for it; names are character         *)
(* sequences, distinct within a request.                                   *)
(***************************************************************************)
MAX_BATCH_FILES == 10

ALLOWED_SUFFIXES ==
    {<<".", "j", "p", "g">>, <<".", "j", "p", "e", "g">>, <<".", "p", "n", "g">>,
     <<".", "p", "d", "f">>}

\* s.endswith(suffix)
EndsWith(s, suffix) ==
    /\ Len(suffix) <= Len(s)
    /\ SubSeq(s, Len(s) - Len(suffix) + 1, Len(s)) = suffix

\* a variant that looks for the ending anywhere in the name
SupportedFormatAnywhere(filename) ==
    \E suffix \in ALLOWED_SUFFIXES :
        \E i \in 1..Len(filename) : EndsWith(SubSeq(filename, 1, i), suffix)

\* filename.endswith(('.jpg', '.jpeg', '.png', '.pdf'))
SupportedFormat(filename) == \E suffix \in ALLOWED_SUFFIXES : EndsWith(filename, suffix)

\* a variant that is off by one: it rejects 10 files
TooManyFilesOffByOne(fs) == Len(fs) >= MAX_BATCH_FILES

\* len(files) > 10
TooManyFiles(fs) == Len(fs) > MAX_BATCH_FILES

Pdf == <<".", "p", "d", "f">>

Txt == <<".", "t", "x", "t">>

\* a paper analysis whose relevance_score is a number outside 1..10, a word,
\* or null
ScoreSample(score) == [PaperSample EXCEPT !.analysis.relevance_score = score]

OddScores == {JNum(42), JNum(0), JStr("high"), JNull}

\* a paper analysis without relevance_score, and one without analysis
NoScoreSample ==
    [basic_info |-> PaperSample.basic_info,
     analysis |-> [relevance_explanation |-> JStr("n/a")]]

NoAnalysisSample == [basic_info |-> PaperSample.basic_info]

\* analysis_info.get("relevance_score", 5) of the record being built
RelevanceScore(pa) == Get(Get(pa, "analysis", EmptyObj), "relevance_score", JNum(5))

\* a paper analysis whose basic_info is no mapping
BadInfoObj == [basic_info |-> JStr("n/a")]

FileKind(suffix, extract, paper, citations, gaps, insert) ==
    [suffix |-> suffix, extract |-> extract, paper |-> paper, citations |-> citations,
     gaps |-> gaps, insert |-> insert]

Plain == TextContent(<<Text>>)

\* a file for which every step succeeds
GoodFile == FileKind(Pdf, "ok", TextContent(<<Json(PaperSample)>>), Plain, Plain, "ok")

FileKinds ==
    {GoodFile,
     [GoodFile EXCEPT !.suffix = Txt],
     [GoodFile EXCEPT !.extract = "raise"],
     [GoodFile EXCEPT !.paper = ProviderError],
     [GoodFile EXCEPT !.citations = ProviderError],
     [GoodFile EXCEPT !.gaps = ProviderError],
     [GoodFile EXCEPT !.insert = "raise"],
     [GoodFile EXCEPT !.paper = Plain],
     [GoodFile EXCEPT !.paper = Plain, !.insert = "raise"],
     [GoodFile EXCEPT !.paper = TextContent(<<Json(EmptyObj)>>)],
     [GoodFile EXCEPT !.paper = TextContent(<<Json(EmptyObj)>>), !.insert = "raise"],
     [GoodFile EXCEPT !.paper = TextContent(<<Json(BadInfoObj)>>)],
     [GoodFile EXCEPT !.paper = TextContent(<<Json(JList(<<"a">>))>>)],
     [GoodFile EXCEPT !.paper = TextContent(<<Json(ScoreSample(JNum(42)))>>)],
     [GoodFile EXCEPT !.paper = TextContent(<<Json(NoScoreSample)>>)]}

\* the stem of the i-th file's name
Stem(i) ==
    <<"f">> \o (IF i >= 10 THEN <<"1">> ELSE <<>>)
            \o <<CHOOSE c \in Digits : DigitVal(c) = i % 10>>

Upload(kinds) ==
    [i \in 1..Len(kinds) |->
        [filename |-> Stem(i) \o kinds[i].suffix, extract |-> kinds[i].extract,
         paper |-> kinds[i].paper, citations |-> kinds[i].citations,
         gaps |-> kinds[i].gaps, insert |-> kinds[i].insert]]

\* requests: every sequence of at most MaxVaried files, and the requests of up
\* to MaxFiles files of one kind
MaxVaried == 2

MaxFiles == 11

Batches ==
    SeqsUpTo(FileKinds, MaxVaried)
        \cup {[i \in 1..n |-> k] : n \in 1..MaxFiles, k \in FileKinds}

\* a local variable that has not been assigned
Unbound == [ty |-> "unbound", s |-> "", n |-> 0, l |-> <<>>]

ErrorEntry(filename, msg) == [filename |-> filename, error |-> msg]

ResultEntry(filename, paper_id, title) ==
    [filename |-> filename, paper_id |-> paper_id, title |-> title, success |-> TRUE]

\* a variant that swallows the exception: the file leaves no entry
FileFailedSwallowed(e) ==
    /\ errors' = errors
    /\ idx' = idx + 1
    /\ pc' = "next"

\* the outer `except Exception as e` of the loop body: the file is recorded
\* in errors and the loop goes on
FileFailed(e) ==
    /\ errors' = Append(errors, ErrorEntry(files[idx].filename, e.msg))
    /\ idx' = idx + 1
    /\ pc' = "next"

NoBatchResponse == [status |-> 0, results |-> <<>>, errors |-> <<>>]

\* the request arrives: results and errors are empty, the size is checked
batch_start ==
    /\ pc = "idle"
    /\ \E b \in Batches :
          /\ files' = Upload(b)
          /\ IF TooManyFiles(Upload(b))
             THEN /\ bresp' = [NoBatchResponse EXCEPT !.status = 400]
                  /\ pc' = "done"
             ELSE /\ bresp' = bresp
                  /\ pc' = "next"
    /\ UNCHANGED <<idx, paper_analysis, basic_info, uuids, results, errors, ops, stored>>
    /\ UNCHANGED nonBatch

\* the loop is over: the handler returns both lists
batch_return ==
    /\ pc = "next"
    /\ idx > Len(files)
    /\ bresp' = [status |-> 200, results |-> results, errors |-> errors]
    /\ pc' = "done"
    /\ UNCHANGED <<files, idx, paper_analysis, basic_info, uuids, results, errors, ops, stored>>
    /\ UNCHANGED nonBatch

\* the next file: its format is validated
batch_validate ==
    /\ pc = "next"
    /\ idx <= Len(files)
    /\ IF SupportedFormat(files[idx].filename)
       THEN /\ pc' = "read"
            /\ UNCHANGED <<idx, errors>>
       ELSE /\ errors' = Append(errors, ErrorEntry(files[idx].filename,
                                                   <<"Unsupported file format">>))
            /\ idx' = idx + 1
            /\ pc' = "next"
    /\ UNCHANGED <<files, paper_analysis, basic_info, uuids, results, ops, stored, bresp>>
    /\ UNCHANGED nonBatch

\* content = await file.read()
batch_read ==
    /\ pc = "read"
    /\ ops' = Append(ops, <<idx, "read">>)
    /\ pc' = "extract"
    /\ UNCHANGED <<files, idx, paper_analysis, basic_info, uuids, results, errors, stored, bresp>>
    /\ UNCHANGED nonBatch

\* extracted_text = await ocr_service.extract_text(...), then sanitize_for_db
batch_extract ==
    /\ pc = "extract"
    /\ ops' = Append(ops, <<idx, "extract_text">>)
    /\ IF files[idx].extract = "raise"
       THEN FileFailed(Raised("Exception", <<"Text extraction error: ", "provider error">>))
       ELSE /\ pc' = "paper"
            /\ UNCHANGED <<idx, errors>>
    /\ UNCHANGED <<files, paper_analysis, basic_info, uuids, results, stored, bresp>>
    /\ UNCHANGED nonBatch

\* paper_analysis = await analysis_service.analyze_paper(extracted_text)
batch_analyze_paper ==
    /\ pc = "paper"
    /\ ops' = Append(ops, <<idx, "analyze_paper">>)
    /\ LET out == AnalyzeOutcome("paper", files[idx].paper) IN
       IF out.t = "raise"
       THEN FileFailed(out) /\ UNCHANGED paper_analysis
       ELSE /\ paper_analysis' = out.v
            /\ pc' = "citations"
            /\ UNCHANGED <<idx, errors>>
    /\ UNCHANGED <<files, basic_info, uuids, results, stored, bresp>>
    /\ UNCHANGED nonBatch

\* citation_analysis = await analysis_service.analyze_citations(extracted_text)
batch_analyze_citations ==
    /\ pc = "citations"
    /\ ops' = Append(ops, <<idx, "analyze_citations">>)
    /\ LET out == AnalyzeOutcome("citations", files[idx].citations) IN
       IF out.t = "raise"
       THEN FileFailed(out)
       ELSE /\ pc' = "gaps"
            /\ UNCHANGED <<idx, errors>>
    /\ UNCHANGED <<files, paper_analysis, basic_info, uuids, results, stored, bresp>>
    /\ UNCHANGED nonBatch

\* gap_analysis = await analysis_service.analyze_research_gaps(extracted_text)
batch_analyze_gaps ==
    /\ pc = "gaps"
    /\ ops' = Append(ops, <<idx, "analyze_research_gaps">>)
    /\ LET out == AnalyzeOutcome("gaps", files[idx].gaps) IN
       IF out.t = "raise"
       THEN FileFailed(out)
       ELSE /\ pc' = "save"
            /\ UNCHANGED <<idx, errors>>
    /\ UNCHANGED <<files, paper_analysis, basic_info, uuids, results, stored, bresp>>
    /\ UNCHANGED nonBatch

\* The inner try of step 5 up to the insert: basic_info and analysis_info are
\* read from paper_analysis and the record is built.  It yields the value
\* basic_info holds afterwards and whether the insert is reached; an
\* AttributeError on the way is caught by `except Exception as db_error`.
BuildRecord(pa, bi) ==
    IF ~IsMapping(pa) THEN [basic_info |-> bi, reached |-> FALSE]
    ELSE LET bi2 == Get(pa, "basic_info", EmptyObj)
             ai  == Get(pa, "analysis", EmptyObj)
         IN  [basic_info |-> bi2, reached |-> IsMapping(bi2) /\ IsMapping(ai)]

\* step 6: results.append({..., "title": basic_info.get("title", "Untitled Paper")}),
\* which reads basic_info again, outside the inner try
AppendResult(res, errs, filename, paper_id, bi) ==
    IF bi = Unbound
    THEN [results |-> res,
          errors |-> Append(errs, ErrorEntry(filename,
                        <<"cannot access local variable 'basic_info'">>))]
    ELSE IF ~IsMapping(bi)
    THEN [results |-> res,
          errors |-> Append(errs, ErrorEntry(filename,
                        <<"object has no attribute 'get'">>))]
    ELSE [results |-> Append(res, ResultEntry(filename, paper_id,
                                 Get(bi, "title", JStr("Untitled Paper")))),
          errors |-> errs]

\* steps 4 to 6 for one file: the paper id, the record and its insert (a
\* failure of either is printed and dropped), then the results entry
batch_save ==
    /\ pc = "save"
    /\ LET built == BuildRecord(paper_analysis, basic_info)
           lists == AppendResult(results, errors, files[idx].filename, uuids + 1,
                                 built.basic_info)
       IN  /\ uuids' = uuids + 1
           /\ basic_info' = built.basic_info
           /\ ops' = IF built.reached THEN Append(ops, <<idx, "insert">>) ELSE ops
           /\ stored' = IF built.reached /\ files[idx].insert = "ok"
                        THEN Append(stored,
                                 [id |-> uuids + 1, filename |-> files[idx].filename,
                                  title |-> Get(built.basic_info, "title",
                                                JStr("Untitled Paper")),
                                  relevance_score |-> RelevanceScore(paper_analysis)])
                        ELSE stored
           /\ results' = lists.results
           /\ errors' = lists.errors
    /\ idx' = idx + 1
    /\ pc' = "next"
    /\ UNCHANGED <<files, paper_analysis, bresp>>
    /\ UNCHANGED nonBatch

(***************************************************************************)
(* Python values as sanitize_for_db and prepare_for_supabase see them.  A  *)
(* string is its sequence of codepoints; a dict is the sequence of its     *)
(* <<key, value>> items in insertion order, the keys being strings; an     *)
(* object is a value of any other type that json.dumps rejects (a set).    *)
(***************************************************************************)
PNone == [ty |-> "none"]

PInt(n) == [ty |-> "int", n |-> n]

PStr(cs) == [ty |-> "str", cs |-> cs]

PDict(items) == [ty |-> "dict", items |-> items]

PList(elems) == [ty |-> "list", elems |-> elems]

PTuple(elems) == [ty |-> "tuple", elems |-> elems]

PObj == [ty |-> "object"]

\* the character class [\x00-\x1F\x7F]
IsControl(c) == c \in 0..31 \/ c = 127

\* a variant that deletes the first match only
ScrubFirst(cs) ==
    IF \E i \in 1..Len(cs) : IsControl(cs[i])
    THEN LET i == CHOOSE i \in 1..Len(cs) :
                      IsControl(cs[i]) /\ \A j \in 1..(i - 1) : ~IsControl(cs[j])
         IN  SubSeq(cs, 1, i - 1) \o SubSeq(cs, i + 1, Len(cs))
    ELSE cs

\* re.sub(r'[\x00-\x1F\x7F]', '', text): every match is deleted
Scrub(cs) == SelectSeq(cs, LAMBDA c : ~IsControl(c))

\* a variant that scrubs the keys of a dict as well
RECURSIVE sanitize_for_dbScrubKeys(_)
sanitize_for_dbScrubKeys(text) ==
    CASE text.ty = "none" -> PNone
      [] text.ty = "str"  -> PStr(Scrub(text.cs))
      [] text.ty = "dict" ->
            PDict([i \in 1..Len(text.items) |->
                      <<Scrub(text.items[i][1]),
                        sanitize_for_dbScrubKeys(text.items[i][2])>>])
      [] text.ty = "list" ->
            PList([i \in 1..Len(text.elems) |-> sanitize_for_dbScrubKeys(text.elems[i])])
      [] OTHER -> text

\* sanitize_for_db(text): the isinstance chain.  The dict comprehension keeps
\* each key k as it is and sanitizes the value; a value of any other type
\* (a number, a tuple, an object) is returned as it is.
RECURSIVE sanitize_for_db(_)
sanitize_for_db(text) ==
    CASE text.ty = "none" -> PNone
      [] text.ty = "str"  -> PStr(Scrub(text.cs))
      [] text.ty = "dict" ->
            PDict([i \in 1..Len(text.items) |->
                      <<text.items[i][1], sanitize_for_db(text.items[i][2])>>])
      [] text.ty = "list" ->
            PList([i \in 1..Len(text.elems) |-> sanitize_for_db(text.elems[i])])
      [] OTHER -> text

\* the caller's object after sanitize_for_db(text) returned: the function
\* has no statement that assigns into `text`; the comprehensions build new
\* containers
ArgAfterSanitize(text) == text

\* json.dumps(v) as far as prepare_for_supabase uses it: it returns, or
\* raises TypeError on a value of a type it does not know
RECURSIVE json_dumps(_)
json_dumps(v) ==
    CASE v.ty = "object" ->
            Raised("TypeError", <<"Object of type set is not JSON serializable">>)
      [] v.ty = "dict" ->
            IF \E i \in 1..Len(v.items) : json_dumps(v.items[i][2]).t = "raise"
            THEN json_dumps(v.items[CHOOSE i \in 1..Len(v.items) :
                     /\ json_dumps(v.items[i][2]).t = "raise"
                     /\ \A j \in 1..(i - 1) : json_dumps(v.items[j][2]).t # "raise"][2])
            ELSE Returned(JNull)
      [] v.ty \in {"list", "tuple"} ->
            IF \E i \in 1..Len(v.elems) : json_dumps(v.elems[i]).t = "raise"
            THEN json_dumps(v.elems[CHOOSE i \in 1..Len(v.elems) :
                     /\ json_dumps(v.elems[i]).t = "raise"
                     /\ \A j \in 1..(i - 1) : json_dumps(v.elems[j]).t # "raise"])
            ELSE Returned(JNull)
      [] OTHER -> Returned(JNull)

HexDigit(d) == IF d < 10 THEN 48 + d ELSE 87 + d

\* one character inside repr() of a string delimited by `quote`
ReprChar(c, quote) ==
    CASE c = 92    -> <<92, 92>>
      [] c = quote -> <<92, c>>
      [] c = 9     -> <<92, 116>>
      [] c = 10    -> <<92, 110>>
      [] c = 13    -> <<92, 114>>
      [] c < 32 \/ c = 127 \/ (c >= 128 /\ c <= 160) \/ c = 173 ->
            <<92, 120, HexDigit(c \div 16), HexDigit(c % 16)>>
      [] OTHER     -> <<c>>

RECURSIVE ReprChars(_, _)
ReprChars(cs, quote) ==
    IF cs = <<>> THEN <<>>
    ELSE ReprChar(Head(cs), quote) \o ReprChars(Tail(cs), quote)

\* repr() of a string: single quotes, unless it holds one and no double quote
ReprStr(cs) ==
    LET quote == IF (\E i \in 1..Len(cs) : cs[i] = 39)
                    /\ ~(\E i \in 1..Len(cs) : cs[i] = 34)
                 THEN 34 ELSE 39
    IN  <<quote>> \o ReprChars(cs, quote) \o <<quote>>

RECURSIVE NatDigits(_)
NatDigits(n) ==
    IF n < 10 THEN <<48 + n>> ELSE NatDigits(n \div 10) \o <<48 + (n % 10)>>

\* ", ".join(parts)
RECURSIVE JoinComma(_)
JoinComma(parts) ==
    IF parts = <<>> THEN <<>>
    ELSE IF Len(parts) = 1 THEN parts[1]
    ELSE parts[1] \o <<44, 32>> \o JoinComma(Tail(parts))

\* repr(v), which is what str(v) gives for a dict or a list
RECURSIVE Repr(_)
Repr(v) ==
    CASE v.ty = "none"   -> <<78, 111, 110, 101>>
      [] v.ty = "int"    -> IF v.n < 0 THEN <<45>> \o NatDigits(0 - v.n) ELSE NatDigits(v.n)
      [] v.ty = "str"    -> ReprStr(v.cs)
      [] v.ty = "dict"   ->
            <<123>> \o JoinComma([i \in 1..Len(v.items) |->
                           ReprStr(v.items[i][1]) \o <<58, 32>> \o Repr(v.items[i][2])])
                    \o <<125>>
      [] v.ty = "list"   ->
            <<91>> \o JoinComma([i \in 1..Len(v.elems) |-> Repr(v.elems[i])]) \o <<93>>
      [] v.ty = "tuple"  ->
            <<40>> \o JoinComma([i \in 1..Len(v.elems) |-> Repr(v.elems[i])])
                   \o (IF Len(v.elems) = 1 THEN <<44>> ELSE <<>>) \o <<41>>
      [] OTHER           -> <<115, 101, 116, 40, 41>>

\* str(v)
py_str(v) == IF v.ty = "str" THEN v ELSE PStr(Repr(v))

\* a variant whose except clause names ValueError only
CheckedFieldValueErrorOnly(value) ==
    IF value.ty \in {"dict", "list"}
    THEN LET d == json_dumps(value) IN
         IF d.t = "raise"
         THEN IF d.exc \in {"ValueError"}
              THEN [t |-> "ok", v |-> py_str(value)]
              ELSE [t |-> "raise", v |-> PNone]
         ELSE [t |-> "ok", v |-> value]
    ELSE [t |-> "ok", v |-> value]

\* the try / except (TypeError, ValueError) around json.dumps for one field:
\* the value the field holds afterwards, or the exception that is not caught
CheckedField(value) ==
    IF value.ty \in {"dict", "list"}
    THEN LET d == json_dumps(value) IN
         IF d.t = "raise"
         THEN IF d.exc \in {"TypeError", "ValueError"}
              THEN [t |-> "ok", v |-> py_str(value)]
              ELSE [t |-> "raise", v |-> PNone]
         ELSE [t |-> "ok", v |-> value]
    ELSE [t |-> "ok", v |-> value]

\* a call's outcome when it returns the Python value v
PReturned(v) == [t |-> "return", v |-> v]

PRaised == [t |-> "raise", v |-> PNone]

\* prepare_for_supabase(data): sanitize, then for a dict check every field
prepare_for_supabase(data) ==
    LET sanitized == sanitize_for_db(data) IN
    IF sanitized.ty = "dict"
    THEN LET checked == [i \in 1..Len(sanitized.items) |->
                            CheckedField(sanitized.items[i][2])]
         IN  IF \E i \in 1..Len(checked) : checked[i].t = "raise"
             THEN PRaised
             ELSE PReturned(PDict([i \in 1..Len(sanitized.items) |->
                                      <<sanitized.items[i][1], checked[i].v>>]))
    ELSE PReturned(sanitized)

\* the values the two functions are applied to: strings with and without
\* control characters at the edges of the class (0, 9, 10, 31, 127 inside;
\* 32, 126, 128 outside), and containers nested to MaxDepth
SampleStrings ==
    {<<>>, <<97>>, <<0>>, <<97, 0, 98, 31, 99>>, <<127, 32, 126>>, <<9, 10, 128>>}

SampleKeys == {<<107>>, <<107, 0>>}

Leaves == {PNone, PInt(7), PObj} \cup {PStr(cs) : cs \in SampleStrings}

\* the containers holding one value of S, under every key and of every kind
Wrapped(S) ==
    {PDict(<<<<k, v>>>>) : k \in SampleKeys, v \in S}
        \cup {PList(<<v>>) : v \in S} \cup {PTuple(<<v>>) : v \in S}

\* the containers holding none or two leaves
Flat ==
    {PDict(<<>>), PList(<<>>)}
        \cup {PDict(<<<<(<<107>>), v>>, <<(<<107, 0>>), w>>>>) : v \in Leaves, w \in Leaves}
        \cup {PList(<<v, w>>) : v \in Leaves, w \in Leaves}

MaxDepth == 2

RECURSIVE ValuesTo(_)
ValuesTo(d) ==
    IF d = 0 THEN Leaves
    ELSE LET below == ValuesTo(d - 1) IN
         below \cup Wrapped(below) \cup (IF d = 1 THEN Flat ELSE {})

Values == ValuesTo(MaxDepth)

\* dicts of two fields, one of them a container of one value: the records
\* given to prepare_for_supabase besides Values
TwoFieldRecords ==
    {PDict(<<<<(<<107>>), v>>, <<(<<102>>), w>>>>) :
        v \in Wrapped(Leaves), w \in Leaves \cup Wrapped({PObj, PStr(<<97, 0>>)})}

NoSan == [arg |-> PNone, after |-> PNone, out |-> PNone, called |-> FALSE]

NoPrep == [arg |-> PNone, out |-> PReturned(PNone), called |-> FALSE]

\* one call of sanitize_for_db
sanitize_call ==
    /\ ~san.called /\ ~prep.called
    /\ \E x \in Values :
          san' = [arg |-> x, after |-> ArgAfterSanitize(x),
                  out |-> sanitize_for_db(x), called |-> TRUE]
    /\ UNCHANGED <<prep, nonSan>>

\* one call of prepare_for_supabase
prepare_call ==
    /\ ~san.called /\ ~prep.called
    /\ \E x \in Values \cup TwoFieldRecords :
          prep' = [arg |-> x, out |-> prepare_for_supabase(x), called |-> TRUE]
    /\ UNCHANGED <<san, nonSan>>

(***************************************************************************)
(* verify_api_key, the dependency of every bearer-gated route.  The        *)
(* environment variable is unset or holds a string; the HTTPBearer scheme  *)
(* hands over the token of the Authorization header, which is not empty.   *)
(***************************************************************************)
GatedRoutes ==
    {"analyze_paper", "get_papers", "get_paper_details", "search_papers",
     "update_paper_analysis", "delete_paper", "batch_analyze_papers",
     "get_similar_papers"}

EnvUnset == [set |-> FALSE, cs |-> <<>>]

EnvSet(cs) == [set |-> TRUE, cs |-> cs]

\* what os.getenv("MISTRAL_API_KEY") can give: nothing, the empty string, a key
EnvValues ==
    {EnvUnset, EnvSet(<<>>), EnvSet(<<"k", "1">>), EnvSet(<<"k", "2">>),
     EnvSet(<<"k", "1", " ">>)}

\* presented tokens: the keys, and strings that differ from a key in case, in
\* a trailing blank or in length
Tokens ==
    {<<"k", "1">>, <<"k", "2">>, <<"K", "1">>, <<"k", "1", " ">>, <<"k">>,
     <<"k", "1", "1">>, <<" ", "k", "1">>}

\* `not api_key`: None and the empty string are both false
Falsy(env) == ~env.set \/ env.cs = <<>>

\* a variant that compares the token before it looks at the configuration
verify_api_keyTokenFirst(env, token) ==
    IF token # env.cs THEN RaisedHTTP(401, <<"Invalid API key">>)
    ELSE IF Falsy(env) THEN RaisedHTTP(500, <<"API key not configured">>)
    ELSE Returned(JNull)

\* verify_api_key(credentials) under the environment env
verify_api_key(env, token) ==
    IF Falsy(env) THEN RaisedHTTP(500, <<"API key not configured">>)
    ELSE IF token # env.cs THEN RaisedHTTP(401, <<"Invalid API key">>)
    ELSE Returned(JNull)

NoAuth == [route |-> "none", env |-> EnvUnset, token |-> <<>>, status |-> 0,
           entered |-> FALSE]

\* a request to a gated route: the dependency runs, and the handler is entered
\* only if it returned
gated_request ==
    /\ auth = NoAuth
    /\ \E route \in GatedRoutes, env \in EnvValues, token \in Tokens :
          LET out == verify_api_key(env, token) IN
          auth' = [route |-> route, env |-> env, token |-> token,
                   status |-> IF out.t = "return" THEN 0 ELSE out.status,
                   entered |-> out.t = "return"]
    /\ UNCHANGED nonAuth

(***************************************************************************)
(* OCRService._extract_text_from_pdf.  A string is the sequence of its     *)
(* parts: single characters, or a literal of the source as one part.  A    *)
(* document is whether the reader opens it and what extract_text() does    *)
(* on each page: return a text, return None, or raise.                     *)
(***************************************************************************)
SENTINEL ==
    <<"This appears to be a scanned PDF without extractable text. Please upload a text-based PDF.">>

PDF_ERROR_PREFIX == "Error extracting text from PDF: "

PageText(cs) == [t |-> "text", cs |-> cs]

PageNone == [t |-> "none", cs |-> <<>>]

PageRaise == [t |-> "raise", cs |-> <<>>]

PageOutcomes ==
    {PageText(<<>>), PageText(<<" ">>), PageText(<<"\n">>), PageText(<<"a">>),
     PageText(<<"a", " ">>), PageNone, PageRaise}

MaxPages == 3

Documents ==
    {[open |-> "raise", pages |-> <<>>]}
        \cup {[open |-> "ok", pages |-> ps] : ps \in SeqsUpTo(PageOutcomes, MaxPages)}

Whitespace == {" ", "\n", "\t"}

\* text.strip() is empty
StripsToEmpty(text) == \A i \in 1..Len(text) : text[i] \in Whitespace

\* the loop over the pages from page i on, text being what is gathered so
\* far: the text after the last page, or the exception that leaves the loop
RECURSIVE ReadPages(_, _, _)
ReadPages(pages, i, text) ==
    IF i > Len(pages) THEN [t |-> "return", text |-> text, msg |-> <<>>]
    ELSE CASE pages[i].t = "raise" ->
                 [t |-> "raise", text |-> text, msg |-> <<"cannot read page">>]
           [] pages[i].t = "none" ->
                 [t |-> "raise", text |-> text,
                  msg |-> <<"unsupported operand type(s) for +: 'NoneType' and 'str'">>]
           [] OTHER -> ReadPages(pages, i + 1, text \o pages[i].cs \o <<"\n", "\n">>)

\* _extract_text_from_pdf(pdf_content): the string it returns
extract_text_from_pdf(doc) ==
    IF doc.open = "raise"
    THEN <<PDF_ERROR_PREFIX, "cannot open document">>
    ELSE LET read == ReadPages(doc.pages, 1, <<>>) IN
         IF read.t = "raise" THEN <<PDF_ERROR_PREFIX>> \o read.msg
         ELSE IF StripsToEmpty(read.text) THEN SENTINEL
         ELSE read.text

NoPdf == [doc |-> [open |-> "none", pages |-> <<>>], t |-> "none", text |-> <<>>]

\* one run of _extract_text_from_pdf: the except clause catches every
\* Exception, so the run returns
pdf_extract ==
    /\ pdf = NoPdf
    /\ \E doc \in Documents :
          pdf' = [doc |-> doc, t |-> "return", text |-> extract_text_from_pdf(doc)]
    /\ UNCHANGED nonPdf

(***************************************************************************)
(* POST /api/papers/analyze.  A request is the file's name, whether the    *)
(* upload can be read, what text extraction does for its content type,     *)
(* what the model answers to each analysis call and what the store does    *)
(* with the insert.  The extracted text is a string of codepoints or None. *)
(***************************************************************************)
TEXT_LIMIT == 5000

\* a text of n letters
Letters(n) == [i \in 1..n |-> 97]

\* texts around the limit, with and without a control character
ExtractedTexts ==
    {<<>>, <<97>>, <<0>>, <<97, 0, 98>>, Letters(TEXT_LIMIT - 1), Letters(TEXT_LIMIT),
     Letters(TEXT_LIMIT + 1), <<0>> \o Letters(TEXT_LIMIT),
     Letters(TEXT_LIMIT) \o <<0, 98>>}

OcrReturns(content_type, text) ==
    [content_type |-> content_type, t |-> "return", text |-> text]

OcrRaises(content_type) ==
    [content_type |-> content_type, t |-> "raise", text |-> PNone]

\* what happens inside extract_text: decoding a text file and reading a PDF
\* return a string whatever happens (_extract_text_from_pdf catches its
\* exceptions); the vision call for an image returns the message content, a
\* string or None, or raises
OcrScenarios ==
    {OcrReturns(ct, PStr(cs)) :
        ct \in {"text/plain", "application/pdf", "image/png"}, cs \in ExtractedTexts}
        \cup {OcrReturns("image/png", PNone), OcrRaises("image/png")}

EXTRACTION_PREFIX == "Text extraction error: "

\* a variant that drops the message of the exception it wraps
WrapExtractionErrorBare(msg) == <<EXTRACTION_PREFIX, "failed">>

\* `except Exception as e: raise Exception(f"Text extraction error: {str(e)}")`
WrapExtractionError(msg) == <<EXTRACTION_PREFIX>> \o msg

\* OCRService.extract_text(content, content_type)
extract_text(ocr) ==
    IF ocr.t = "raise"
    THEN [t |-> "raise", msg |-> WrapExtractionError(<<"provider error">>), text |-> PNone]
    ELSE [t |-> "return", msg |-> <<>>, text |-> ocr.text]

\* a variant that keeps the whole text
StoredExtractWhole(extracted_text) ==
    IF extracted_text.ty = "str" THEN PStr(extracted_text.cs) ELSE PStr(<<>>)

\* extracted_text[:5000] if extracted_text else ""
StoredExtract(extracted_text) ==
    IF extracted_text.ty = "str" /\ extracted_text.cs # <<>>
    THEN PStr(SliceTo(extracted_text.cs, TEXT_LIMIT))
    ELSE PStr(<<>>)

\* the key "extracted_text"
EXTRACTED_TEXT_KEY ==
    <<101, 120, 116, 114, 97, 99, 116, 101, 100, 95, 116, 101, 120, 116>>

\* the string-valued part of paper_data that depends on the extracted text
PaperData(extracted_text) ==
    PDict(<<<<EXTRACTED_TEXT_KEY, StoredExtract(extracted_text)>>>>)

\* the row the insert writes: prepare_for_supabase(paper_data)
StoredRow(paper_id, analysis, extracted_text) ==
    [id |-> paper_id,
     relevance_score |-> RelevanceScore(analysis),
     extracted_text |-> prepare_for_supabase(PaperData(extracted_text)).v.items[1][2].cs,
     full_text |-> IF extracted_text.ty = "str" THEN extracted_text.cs ELSE <<>>]

\* a variant that lets a failure of the save leave the inner try
SaveRecordReraise(analysis, extracted_text, paper_id, insert) ==
    IF ~BuildRecord(analysis, Unbound).reached
    THEN [escaped |-> TRUE, inserted |-> FALSE, rows |-> <<>>]
    ELSE IF insert = "raise"
    THEN [escaped |-> TRUE, inserted |-> TRUE, rows |-> <<>>]
    ELSE [escaped |-> FALSE, inserted |-> TRUE,
          rows |-> <<StoredRow(paper_id, analysis, extracted_text)>>]

\* step 5, the inner try: build the record, prepare it, insert it.  Reading
\* basic_info from an analysis that is no mapping raises AttributeError and
\* the insert can raise; `except Exception as db_error` prints either and
\* goes on, so nothing escapes.
SaveRecord(analysis, extracted_text, paper_id, insert) ==
    IF ~BuildRecord(analysis, Unbound).reached
    THEN [escaped |-> FALSE, inserted |-> FALSE, rows |-> <<>>]
    ELSE IF insert = "raise"
    THEN [escaped |-> FALSE, inserted |-> TRUE, rows |-> <<>>]
    ELSE [escaped |-> FALSE, inserted |-> TRUE,
          rows |-> <<StoredRow(paper_id, analysis, extracted_text)>>]

NoPayload ==
    [paper_id |-> 0, file_url |-> <<>>, paper_analysis |-> JNull,
     citation_analysis |-> JNull, gap_analysis |-> JNull]

\* an HTTPException leaving the handler
Failure(status, detail) ==
    [status |-> status, detail |-> detail, has_payload |-> FALSE, payload |-> NoPayload,
     inserted |-> FALSE, rows |-> <<>>]

\* step 6: the success payload
Success(filename, paper_id, p, c, g, save) ==
    [status |-> 200, detail |-> <<>>, has_payload |-> TRUE,
     payload |-> [paper_id |-> paper_id, file_url |-> <<"local://">> \o filename,
                  paper_analysis |-> p, citation_analysis |-> c, gap_analysis |-> g],
     inserted |-> save.inserted, rows |-> save.rows]

\* steps 4 to 6, given the outcomes p, c, g of the three analysis calls; an
\* exception of a call leaves the outer try at that call
AfterAnalyses(req, text, p, c, g) ==
    IF p.t = "raise" THEN Failure(500, p.msg)
    ELSE IF c.t = "raise" THEN Failure(500, c.msg)
    ELSE IF g.t = "raise" THEN Failure(500, g.msg)
    ELSE IF SaveRecord(p.v, text, 1, req.insert).escaped
    THEN Failure(500, <<"database error">>)
    ELSE Success(req.filename, 1, p.v, c.v, g.v, SaveRecord(p.v, text, 1, req.insert))

\* steps 2 and 3, given the outcome ex of extract_text
AfterExtract(req, ex) ==
    IF ex.t = "raise" THEN Failure(500, ex.msg)
    ELSE AfterAnalyses(req, sanitize_for_db(ex.text),
                       AnalyzeOutcome("paper", req.paper),
                       AnalyzeOutcome("citations", req.citations),
                       AnalyzeOutcome("gaps", req.gaps))

\* the handler: the format check, then the body inside
\* try / except Exception -> HTTPException(500, detail=str(e))
AnalyzeHandler(req) ==
    IF ~SupportedFormat(req.filename) THEN Failure(400, <<"Unsupported file format">>)
    ELSE IF req.read = "raise" THEN Failure(500, <<"read error">>)
    ELSE AfterExtract(req, extract_text(req.ocr))

\* a variant that goes on after a call raised
AnalyzeOpsKeepsGoing(req) ==
    IF ~SupportedFormat(req.filename) THEN <<>>
    ELSE <<"read", "extract_text", "analyze_paper", "analyze_citations",
           "analyze_research_gaps", "insert">>

\* the external operations the handler issues, in the order of its statements:
\* nothing before the format check passes, then each call of the try block
\* until one raises; the insert is the last statement of the inner try
AnalyzeOps(req) ==
    IF ~SupportedFormat(req.filename) THEN <<>>
    ELSE IF req.read = "raise" THEN <<"read">>
    ELSE IF extract_text(req.ocr).t = "raise" THEN <<"read", "extract_text">>
    ELSE IF AnalyzeOutcome("paper", req.paper).t = "raise"
    THEN <<"read", "extract_text", "analyze_paper">>
    ELSE IF AnalyzeOutcome("citations", req.citations).t = "raise"
    THEN <<"read", "extract_text", "analyze_paper", "analyze_citations">>
    ELSE IF AnalyzeOutcome("gaps", req.gaps).t = "raise"
    THEN <<"read", "extract_text", "analyze_paper", "analyze_citations",
           "analyze_research_gaps">>
    ELSE <<"read", "extract_text", "analyze_paper", "analyze_citations",
           "analyze_research_gaps">>
            \o (IF BuildRecord(AnalyzeOutcome("paper", req.paper).v, Unbound).reached
                THEN <<"insert">> ELSE <<>>)

\* endings of uploaded names: the four accepted ones, another extension, an
\* accepted one in capitals, none, an accepted one that is not last, one
\* without its dot, and a shortened one
Suffixes ==
    ALLOWED_SUFFIXES
        \cup {Txt, <<".", "P", "D", "F">>, <<>>, <<".", "p", "d", "f", ".", "t", "x", "t">>,
              <<"p", "d", "f">>, <<".", "j", "p", "e">>}

AnalyzeRequest(suffix, read, ocr, paper, citations, gaps, insert) ==
    [filename |-> Stem(1) \o suffix, read |-> read, ocr |-> ocr, paper |-> paper,
     citations |-> citations, gaps |-> gaps, insert |-> insert]

\* what the model answers to the paper analysis: its schema, an object
\* without basic_info, one whose basic_info is no mapping, a list, plain text,
\* no content, or the call fails
PaperAnswers ==
    {TextContent(<<Json(PaperSample)>>), TextContent(<<Json(EmptyObj)>>),
     TextContent(<<Json(BadInfoObj)>>), TextContent(<<Json(JList(<<"a">>))>>),
     Plain, NullContent, ProviderError}
      \cup {TextContent(<<Json(ScoreSample(score))>>) : score \in OddScores}
      \cup {TextContent(<<Json(NoScoreSample)>>), TextContent(<<Json(NoAnalysisSample)>>)}

OtherAnswers == {Plain, ProviderError}

AnalyzeRequests ==
    {AnalyzeRequest(Pdf, "ok", ocr, paper, citations, gaps, insert) :
        ocr \in OcrScenarios, paper \in PaperAnswers, citations \in OtherAnswers,
        gaps \in OtherAnswers, insert \in {"ok", "raise"}}
      \cup {AnalyzeRequest(suffix, read, OcrReturns("application/pdf", PStr(<<97>>)),
                           Plain, Plain, Plain, "ok") :
               suffix \in Suffixes, read \in {"ok", "raise"}}

NoAnalyzeRequest ==
    [req |-> AnalyzeRequest(<<>>, "none", OcrRaises("none"), ProviderError, ProviderError,
                            ProviderError, "none"),
     served |-> FALSE, resp |-> Failure(0, <<>>), ops |-> <<>>]

\* The route keeps nothing between requests but the rows it inserted.
analyze_request ==
    /\ ~areq.served
    /\ \E req \in AnalyzeRequests :
          /\ areq' = [req |-> req, served |-> TRUE, resp |-> AnalyzeHandler(req),
                       ops |-> AnalyzeOps(req)]
          /\ astored' = astored \o AnalyzeHandler(req).rows
    /\ UNCHANGED nonAnalyze

(***************************************************************************)
(* PUT /api/papers/{paper_id}.  The body is a JSON object, here a Python   *)
(* dict as above.  The handler checks that the paper exists, sets          *)
(* updated_at, copies the metadata fields found in a supplied              *)
(* paper_analysis to the top level, prepares the dict and hands it to the  *)
(* store's update.                                                         *)
(***************************************************************************)
KEY_UPDATED_AT == <<117, 112, 100, 97, 116, 101, 100, 95, 97, 116>>

KEY_PAPER_ANALYSIS == <<112, 97, 112, 101, 114, 95, 97, 110, 97, 108, 121, 115, 105, 115>>

KEY_BASIC_INFO == <<98, 97, 115, 105, 99, 95, 105, 110, 102, 111>>

KEY_ANALYSIS == <<97, 110, 97, 108, 121, 115, 105, 115>>

KEY_TITLE == <<116, 105, 116, 108, 101>>

KEY_AUTHORS == <<97, 117, 116, 104, 111, 114, 115>>

KEY_YEAR == <<121, 101, 97, 114, 95, 111, 102, 95, 112, 117, 98, 108, 105, 99, 97, 116, 105, 111, 110>>

KEY_TYPE == <<116, 121, 112, 101>>

KEY_PAPER_TYPE == <<112, 97, 112, 101, 114, 95, 116, 121, 112, 101>>

KEY_RELEVANCE == <<114, 101, 108, 101, 118, 97, 110, 99, 101, 95, 115, 99, 111, 114, 101>>

\* datetime.now().isoformat()
NOW == PStr(<<50, 48, 50, 54, 45, 48, 49, 45, 48, 49, 84, 48, 48, 58, 48, 48, 58, 48, 48>>)

\* k in d, for a dict d
PHas(d, k) == \E i \in 1..Len(d.items) : d.items[i][1] = k

\* d[k], for a dict d that has k
PGet(d, k) == d.items[CHOOSE i \in 1..Len(d.items) : d.items[i][1] = k][2]

\* d[k] = v: a key the dict has keeps its place, a new one goes last
PSet(d, k, v) ==
    IF PHas(d, k)
    THEN PDict([i \in 1..Len(d.items) |->
                   IF d.items[i][1] = k THEN <<k, v>> ELSE d.items[i]])
    ELSE PDict(Append(d.items, <<k, v>>))

\* cs holds k as a substring
HasSubstring(cs, k) ==
    \E i \in 0..(Len(cs) - Len(k)) : SubSeq(cs, i + 1, i + Len(k)) = k

\* `k in v`: a dict tests its keys, a string its substrings, a list or tuple
\* its elements; None, a number and an object raise TypeError
PyIn(k, v) ==
    CASE v.ty = "dict" -> PReturned(PHas(v, k))
      [] v.ty = "str"  -> PReturned(HasSubstring(v.cs, k))
      [] v.ty \in {"list", "tuple"} ->
            PReturned(\E i \in 1..Len(v.elems) : v.elems[i] = PStr(k))
      [] OTHER -> PRaised

\* v.get(k, {}): only a dict has .get
PyGet(v, k) ==
    IF v.ty = "dict" THEN PReturned(IF PHas(v, k) THEN PGet(v, k) ELSE PDict(<<>>))
    ELSE PRaised

\* a variant that keeps a top-level value the request supplied
CopyFieldKeepSupplied(acc, src, k, dst) ==
    IF acc.t = "raise" \/ src.t = "raise" THEN PRaised
    ELSE IF PyIn(k, src.v).t = "raise" THEN PRaised
    ELSE IF ~PyIn(k, src.v).v THEN acc
    ELSE IF src.v.ty # "dict" THEN PRaised
    ELSE IF PHas(acc.v, dst) THEN acc
    ELSE PReturned(PSet(acc.v, dst, PGet(src.v, k)))

\* `if k in src: update_data[dst] = src[k]`, after the statements that gave
\* acc and src; subscripting a string or a list with a key raises TypeError
CopyField(acc, src, k, dst) ==
    IF acc.t = "raise" \/ src.t = "raise" THEN PRaised
    ELSE IF PyIn(k, src.v).t = "raise" THEN PRaised
    ELSE IF ~PyIn(k, src.v).v THEN acc
    ELSE IF src.v.ty # "dict" THEN PRaised
    ELSE PReturned(PSet(acc.v, dst, PGet(src.v, k)))

\* the metadata fields re-derived from paper_analysis: basic_info is read
\* first, then analysis_info, then the five copies in the order of the code
DeriveMetadata(update_data, bi, ai) ==
    IF bi.t = "raise" \/ ai.t = "raise" THEN PRaised
    ELSE CopyField(
             CopyField(
                 CopyField(
                     CopyField(
                         CopyField(PReturned(update_data), bi, KEY_TITLE, KEY_TITLE),
                         bi, KEY_AUTHORS, KEY_AUTHORS),
                     bi, KEY_YEAR, KEY_YEAR),
                 bi, KEY_TYPE, KEY_PAPER_TYPE),
             ai, KEY_RELEVANCE, KEY_RELEVANCE)

\* update_data after the timestamp and the metadata fields are set
UpdateData(body) ==
    IF PHas(body, KEY_PAPER_ANALYSIS)
    THEN DeriveMetadata(PSet(body, KEY_UPDATED_AT, NOW),
                        PyGet(PGet(body, KEY_PAPER_ANALYSIS), KEY_BASIC_INFO),
                        PyGet(PGet(body, KEY_PAPER_ANALYSIS), KEY_ANALYSIS))
    ELSE PReturned(PSet(body, KEY_UPDATED_AT, NOW))

\* safe_update_data = prepare_for_supabase(update_data)
SafeUpdateData(data) == IF data.t = "raise" THEN PRaised ELSE prepare_for_supabase(data.v)

\* the handler after the existence check yielded y and with u the answer of
\* the store's update: the status, and the dict handed to the update if the
\* handler got that far
UpdateOutcome(body, y, u, safe) ==
    IF y # "row" THEN [body |-> body, status |-> 500, sent |-> FALSE, update |-> PNone]
    ELSE IF safe.t = "raise"
    THEN [body |-> body, status |-> 500, sent |-> FALSE, update |-> PNone]
    ELSE [body |-> body, status |-> IF u = "error" THEN 500 ELSE 200, sent |-> TRUE,
          update |-> safe.v]

\* basic_info blobs: with every field, with a title only, empty, null, a
\* string that holds "title", another string, a list that holds "title"
BasicInfoBlobs ==
    {PDict(<<<<KEY_TITLE, PStr(<<84, 0, 49>>)>>, <<KEY_AUTHORS, PList(<<PStr(<<97>>)>>)>>,
             <<KEY_YEAR, PInt(2020)>>, <<KEY_TYPE, PStr(<<114, 101, 118>>)>>>>),
     PDict(<<<<KEY_TITLE, PStr(<<78>>)>>>>),
     PDict(<<<<KEY_TYPE, PNone>>>>),
     PDict(<<>>), PNone, PStr(<<115, 117, 98, 116, 105, 116, 108, 101>>), PStr(<<120>>), PList(<<PStr(KEY_TITLE)>>)}

AnalysisBlobs == {PDict(<<<<KEY_RELEVANCE, PInt(7)>>>>), PDict(<<>>), PNone}

\* paper_analysis blobs: with basic_info and analysis, with one of them,
\* empty, and values that are no dict
AnalysisBlobsOfPaper ==
    {PDict(<<<<KEY_BASIC_INFO, b>>, <<KEY_ANALYSIS, a>>>>) :
        b \in BasicInfoBlobs, a \in AnalysisBlobs}
      \cup {PDict(<<<<KEY_BASIC_INFO, b>>>>) : b \in BasicInfoBlobs}
      \cup {PDict(<<<<KEY_ANALYSIS, a>>>>) : a \in AnalysisBlobs}
      \cup {PDict(<<>>), PNone, PStr(<<120>>), PList(<<>>)}

\* what the request supplies at the top level besides paper_analysis
TopLevels ==
    {<<>>,
     <<<<KEY_TITLE, PStr(<<79, 108, 100>>)>>, <<KEY_PAPER_TYPE, PStr(<<111>>)>>,
       <<KEY_RELEVANCE, PInt(1)>>>>,
     <<<<KEY_UPDATED_AT, PStr(<<111, 108, 100>>)>>, <<KEY_YEAR, PInt(1999)>>,
       <<KEY_AUTHORS, PList(<<>>)>>>>}

UpdateBodies ==
    {PDict(top) : top \in TopLevels}
      \cup {PDict(top \o <<<<KEY_PAPER_ANALYSIS, pa>>>>) :
               top \in TopLevels, pa \in AnalysisBlobsOfPaper}
      \cup {PDict(<<<<KEY_PAPER_ANALYSIS, pa>>>> \o top) :
               top \in TopLevels, pa \in AnalysisBlobsOfPaper}

NoUpdate == [body |-> PNone, status |-> 0, sent |-> FALSE, update |-> PNone]

\* one PUT /api/papers/{paper_id}; the route keeps nothing between requests
update_request ==
    /\ upd = NoUpdate
    /\ \E body \in UpdateBodies, y \in {"row", "nodata", "norow_raised", "error"},
          u \in {"row", "error"} :
          /\ y = "row" \/ u = "row"
          /\ upd' = UpdateOutcome(body, y, u, SafeUpdateData(UpdateData(body)))
    /\ UNCHANGED nonUpdate

(***************************************************************************)
(* The event loop of one server process running the analyze handler for    *)
(* several requests.  The handlers are coroutines on one thread: a handler *)
(* gives the thread back only at an await that suspends.  `await           *)
(* file.read()` suspends while the upload is read.  The provider clients   *)
(* (MistralClient, OpenAI) and the store client are the synchronous ones,  *)
(* called without await inside `async def`: from the first of these calls  *)
(* to the return the handler never suspends and holds the thread while     *)
(* each call waits for its answer.                                         *)
(***************************************************************************)
MaxRequests == 3

Requests == 1..MaxRequests

\* the handler is inside a synchronous call that has not returned
ProviderCalls == {"extract", "paper", "citations", "gaps"}

BlockingCalls == ProviderCalls \cup {"insert"}

\* the call the handler makes after the one that returned
NextCall(p) ==
    CASE p = "extract"   -> "paper"
      [] p = "paper"     -> "citations"
      [] p = "citations" -> "gaps"
      [] OTHER           -> "insert"

\* the loop starts the handler of a request that arrived; it runs to
\* `await file.read()` and suspends
loop_start(r) ==
    /\ running = 0
    /\ rpc[r] = "new"
    /\ rpc' = [rpc EXCEPT ![r] = "reading"]
    /\ UNCHANGED running
    /\ UNCHANGED nonLoop

\* the upload has been read: the handler can be resumed
loop_read_done(r) ==
    /\ rpc[r] = "reading"
    /\ rpc' = [rpc EXCEPT ![r] = "ready"]
    /\ UNCHANGED running
    /\ UNCHANGED nonLoop

\* the loop resumes the handler, which calls extract_text and with it the
\* provider
loop_resume(r) ==
    /\ running = 0
    /\ rpc[r] = "ready"
    /\ rpc' = [rpc EXCEPT ![r] = "extract"]
    /\ running' = r
    /\ UNCHANGED nonLoop

\* the call the handler waits in returns; the handler goes on to its next call
loop_call_returns(r) ==
    /\ running = r
    /\ rpc[r] \in ProviderCalls
    /\ rpc' = [rpc EXCEPT ![r] = NextCall(rpc[r])]
    /\ UNCHANGED running
    /\ UNCHANGED nonLoop

\* the call raises: the handler answers 500 and gives the thread back
loop_call_raises(r) ==
    /\ running = r
    /\ rpc[r] \in ProviderCalls
    /\ rpc' = [rpc EXCEPT ![r] = "failed"]
    /\ running' = 0
    /\ UNCHANGED nonLoop

\* the insert returns or raises; the handler returns the payload
loop_finish(r) ==
    /\ running = r
    /\ rpc[r] = "insert"
    /\ rpc' = [rpc EXCEPT ![r] = "done"]
    /\ running' = 0
    /\ UNCHANGED nonLoop

\* the steps of request r
RequestStep(r) ==
    \/ loop_start(r)
    \/ loop_read_done(r)
    \/ loop_resume(r)
    \/ loop_call_returns(r)
    \/ loop_call_raises(r)
    \/ loop_finish(r)

(***************************************************************************)
(* Specifications.                                                         *)
(***************************************************************************)
InitStore ==
    /\ theses = {}
    /\ papers = {}
    /\ resp = NoResponse
    /\ acall = NoCall
    /\ sim = NoSimilar
    /\ files = <<>>
    /\ pc = "idle"
    /\ idx = 1
    /\ paper_analysis = Unbound
    /\ basic_info = Unbound
    /\ uuids = 0
    /\ results = <<>>
    /\ errors = <<>>
    /\ ops = <<>>
    /\ stored = <<>>
    /\ bresp = NoBatchResponse
    /\ san = NoSan
    /\ prep = NoPrep
    /\ auth = NoAuth
    /\ pdf = NoPdf
    /\ areq = NoAnalyzeRequest
    /\ astored = <<>>
    /\ running = 0
    /\ rpc = [r \in Requests |-> "new"]
    /\ upd = NoUpdate

NextStore ==
    \/ create_thesis
    \/ insert_paper
    \/ \E id \in Ids : get_thesis(id)
    \/ \E id \in Ids : update_thesis(id)
    \/ \E id \in Ids : delete_thesis(id)
    \/ \E id \in Ids : get_paper_details(id)
    \/ \E id \in Ids : update_paper_analysis(id)
    \/ \E id \in Ids : delete_paper(id)

SpecStore == InitStore /\ [][NextStore]_vars

InitAnalysis == InitStore

NextAnalysis ==
    \/ analyze_paper
    \/ analyze_citations
    \/ analyze_research_gaps

SpecAnalysis == InitAnalysis /\ [][NextAnalysis]_vars

InitSimilar == InitStore

NextSimilar ==
    \/ get_similar_papers_no_source
    \/ get_similar_papers_fetch_error
    \/ get_similar_papers

SpecSimilar == InitSimilar /\ [][NextSimilar]_vars

InitBatch == InitStore

NextBatch ==
    \/ batch_start
    \/ batch_validate
    \/ batch_read
    \/ batch_extract
    \/ batch_analyze_paper
    \/ batch_analyze_citations
    \/ batch_analyze_gaps
    \/ batch_save
    \/ batch_return

SpecBatch == InitBatch /\ [][NextBatch]_vars

InitSanitize == InitStore

NextSanitize ==
    \/ sanitize_call
    \/ prepare_call

SpecSanitize == InitSanitize /\ [][NextSanitize]_vars

InitAuth == InitStore

NextAuth == gated_request

SpecAuth == InitAuth /\ [][NextAuth]_vars

InitPdf == InitStore

NextPdf == pdf_extract

SpecPdf == InitPdf /\ [][NextPdf]_vars

InitAnalyze == InitStore

NextAnalyze == analyze_request

SpecAnalyze == InitAnalyze /\ [][NextAnalyze]_vars

InitLoop == InitStore

NextLoop == \E r \in Requests : RequestStep(r)

SpecLoop == InitLoop /\ [][NextLoop]_vars

InitUpdate == InitStore

NextUpdate == update_request

SpecUpdate == InitUpdate /\ [][NextUpdate]_vars

\* the two routes that analyze uploads and store a record.  Neither keeps
\* anything from one request to the next, so one request of either route from
\* the idle state stands for every request.
InitIngest == InitStore

NextIngest ==
    \/ pc = "idle" /\ analyze_request
    \/ ~areq.served /\ NextBatch

SpecIngest == InitIngest /\ [][NextIngest]_vars

(***************************************************************************)
(* Claims.                                                                 *)
(***************************************************************************)

LookupOps == {"get_thesis", "update_thesis", "delete_thesis",
              "get_paper_details", "update_paper_analysis", "delete_paper"}

\* C1: every lookup-by-id for which the store yields no row answers 404.
C1_NoRowIs404 ==
    (resp.op \in LookupOps /\ resp.store \in {"nodata", "norow_raised"})
        => resp.status = 404

\* the response of the last analysis call is a text that is not valid JSON
NotJson(prov) ==
    prov.t = "content" /\ ~prov.isnull /\ json_loads(prov).t = "raise"

\* C2: when the response is not JSON and the contents of its fenced block do
\* not parse either, the call returns the fallback structure of its kind.
C2_BadFenceGivesFallback ==
    (/\ acall.kind \in Kinds
     /\ NotJson(acall.prov)
     /\ ContainsFence(acall.prov.segs)
     /\ json_loads(TextContent(FencedBlock(acall.prov.segs))).t = "raise")
        => acall.out = Returned(Fallback(acall.kind))

\* a mapping with the top-level keys of the kind's schema
WellShaped(kind, v) == IsMapping(v) /\ DOMAIN v = TopKeys(kind)

\* C3: whatever the model answers, a call returns a mapping with its kind's
\* top-level schema or raises the wrapped provider error.
C3_WellShapedOrWrapped ==
    acall.kind \in Kinds =>
        \/ acall.out.t = "return" /\ WellShaped(acall.kind, acall.out.v)
        \/ acall.out.t = "raise" /\ acall.out.exc = "Exception"
                                 /\ Head(acall.out.msg) = ErrorPrefix(acall.kind)

SimScored ==
    /\ sim.srcYield = "row"
    /\ sim.fetchYield = "rows"
    /\ IsMapping(sim.source.paper_analysis)
    /\ "basic_info" \in DOMAIN sim.source.paper_analysis
    /\ Keywords(sim.source.paper_analysis.basic_info,
                Get(sim.source.paper_analysis, "analysis", EmptyObj)).t = "return"

SimBasicInfo == sim.source.paper_analysis.basic_info

SimSourceYear == Get(SimBasicInfo, "year_of_publication", JStr("Unknown"))

Parses(year) == py_int(year).t = "return"

IntOf(year) == py_int(year).v.n

\* the score the ranking rule gives candidate c
ExpectedScore(c) ==
    (IF c.paper_type = Get(SimBasicInfo, "type", JNull) THEN 2 ELSE 0)
    + (IF /\ Parses(SimSourceYear)
          /\ Parses(c.year_of_publication)
          /\ Abs(IntOf(SimSourceYear) - IntOf(c.year_of_publication)) <= 5
       THEN 1 ELSE 0)

\* C5: a source or candidate year that does not parse as an integer (text,
\* "Unknown", missing, null) adds 0 to the score and the request succeeds.
C5_UnparseableYearAddsZero ==
    (/\ SimScored
     /\ \/ ~Parses(SimSourceYear)
        \/ \E i \in 1..Len(sim.cands) : ~Parses(sim.cands[i].year_of_publication))
        => /\ sim.status = 200
           /\ \A i \in 1..Len(sim.body) :
                 (~Parses(SimSourceYear) \/ ~Parses(sim.body[i].year_of_publication))
                    => sim.body[i].similarity_score
                         = (IF sim.body[i].paper_type = Get(SimBasicInfo, "type", JNull)
                            THEN 2 ELSE 0)

\* the example: source type "A", year 2020; candidates (A, 2021), (B, 2020),
\* (A, 2030), all of them returned
ExampleInput ==
    /\ SimScored
    /\ SimBasicInfo \in {BasicInfo(JStr("2020")), BasicInfo(JNum(2020))}
    /\ sim.cands = Rows(<<<<JStr("A"), JStr("2021")>>, <<JStr("B"), JStr("2020")>>,
                          <<JStr("A"), JStr("2030")>>>>)
    /\ sim.limit = DEFAULT_LIMIT

\* the scores of the returned candidates, in store order
ScoresInStoreOrder ==
    [i \in 1..Len(sim.cands) |->
        (CHOOSE e \in {sim.body[j] : j \in 1..Len(sim.body)} : e.id = i).similarity_score]

\* C6 as stated: the example's scores are [3, 0, 2].
C6_ExampleScores302 ==
    ExampleInput => (sim.status = 200 /\ ScoresInStoreOrder = <<3, 0, 2>>)

\* C6 (amended): the example's scores are [3, 1, 2]; the second candidate has
\* another type but the same year, which is within 5 years.
C6_ExampleScores312 ==
    ExampleInput => (sim.status = 200 /\ ScoresInStoreOrder = <<3, 1, 2>>)

C6_Witness ==
    /\ ExampleInput
    /\ SimBasicInfo = BasicInfo(JStr("2020"))
    /\ Len(sim.body) = 3

\* C7: each score attached is 2 for an equal type plus 1 for two years that
\* parse and differ by at most 5, so it lies in 0..3.
C7_ScoreFormula ==
    (SimScored /\ sim.status = 200) =>
        \A i \in 1..Len(sim.body) :
            /\ sim.body[i].similarity_score = ExpectedScore(sim.body[i])
            /\ sim.body[i].similarity_score \in 0..3

C7_Witness ==
    /\ SimScored
    /\ sim.status = 200
    /\ SimSourceYear = JStr("2020")
    /\ Len(sim.body) = 3
    /\ sim.body[1].year_of_publication = JStr("2025") /\ sim.body[1].similarity_score = 3
    /\ sim.body[2].year_of_publication = JStr("2014") /\ sim.body[2].similarity_score = 0
    /\ sim.body[3].year_of_publication = JStr("n.d.") /\ sim.body[3].similarity_score = 0

\* a ranks before b: a higher score, or the same score and earlier in the store
RanksBefore(a, b) ==
    \/ a.similarity_score > b.similarity_score
    \/ a.similarity_score = b.similarity_score /\ a.id < b.id

\* C8: the response is the first min(limit, n) candidates of the ordering by
\* descending score with ties in store order, each carrying its score.
C8_RankedPrefix ==
    (SimScored /\ sim.status = 200 /\ sim.limit >= 0) =>
        LET n       == Len(sim.cands)
            m       == Len(sim.body)
            scored  == [i \in 1..n |-> Annotated(sim.cands[i], ExpectedScore(sim.cands[i]))]
            inBody  == {sim.body[j].id : j \in 1..m}
        IN  /\ m = (IF sim.limit < n THEN sim.limit ELSE n)
            /\ \A j \in 1..m : sim.body[j].id \in 1..n /\ sim.body[j] = scored[sim.body[j].id]
            /\ \A j, k \in 1..m : j < k => RanksBefore(sim.body[j], sim.body[k])
            /\ \A i \in 1..n : i \notin inBody =>
                   \A j \in 1..m : RanksBefore(sim.body[j], scored[i])

\* a tie between the first and the third candidate, cut by the limit
C8_Witness ==
    /\ SimScored
    /\ sim.status = 200
    /\ sim.limit = 2
    /\ Len(sim.cands) = 3
    /\ Len(sim.body) = 2
    /\ sim.body[1].id = 2 /\ sim.body[2].id = 1
    /\ sim.body[2].similarity_score = ExpectedScore(sim.cands[3])

(***************************************************************************)
(* Claims about batch-analyze.                                             *)
(***************************************************************************)
\* the number of entries of list whose filename is name
Entries(list, name) == Cardinality({j \in 1..Len(list) : list[j].filename = name})

\* the position in the request of the file called name
Position(name) == CHOOSE i \in 1..Len(files) : files[i].filename = name

InRequestOrder(list) ==
    \A j, k \in 1..Len(list) :
        j < k => Position(list[j].filename) < Position(list[k].filename)

\* C9: in a request of at most 10 files every file is processed, in order, and
\* puts exactly one entry in exactly one of results and errors, whatever fails.
C9_OneEntryPerFile ==
    (pc # "idle" /\ Len(files) <= 10) =>
        /\ Len(results) + Len(errors) = idx - 1
        /\ \A i \in 1..Len(files) :
              Entries(results, files[i].filename) + Entries(errors, files[i].filename)
                  = (IF i < idx THEN 1 ELSE 0)
        /\ InRequestOrder(results)
        /\ InRequestOrder(errors)
        /\ \A j \in 1..Len(ops) : ops[j][1] <= idx
        /\ \A j, k \in 1..Len(ops) : j < k => ops[j][1] <= ops[k][1]
        /\ pc = "done" =>
              /\ idx - 1 = Len(files)
              /\ bresp = [status |-> 200, results |-> results, errors |-> errors]
        /\ pc # "done" => ENABLED NextBatch

\* a failed first file, of whatever kind, and a second file in results
C9_Witness ==
    /\ pc = "done"
    /\ Len(files) = 2
    /\ files[1].gaps = ProviderError
    /\ files[2].insert = "raise"
    /\ Len(bresp.errors) = 1 /\ bresp.errors[1].filename = files[1].filename
    /\ Len(bresp.results) = 1 /\ bresp.results[1].filename = files[2].filename
    /\ stored = <<>>

\* C10: more than 10 files are rejected with 400 before any file is read and
\* before any OCR, analysis or store operation; 10 files are not rejected.
C10_SizeCheckFirst ==
    pc # "idle" =>
        /\ Len(files) > 10 =>
              /\ pc = "done"
              /\ bresp.status = 400
              /\ ops = <<>> /\ stored = <<>> /\ results = <<>> /\ errors = <<>>
        /\ Len(files) <= 10 => bresp.status # 400
        /\ (Len(files) = 10 /\ pc = "done") => bresp.status = 200

C10_Witness ==
    /\ pc = "done"
    /\ Len(files) = 11
    /\ bresp.status = 400
    /\ ops = <<>>

\* the analyze request got as far as the save: the format is supported, the
\* upload was read, text extraction and the three analysis calls returned
ReachedSave ==
    /\ areq.served
    /\ SupportedFormat(areq.req.filename)
    /\ areq.req.read = "ok"
    /\ extract_text(areq.req.ocr).t = "return"
    /\ AnalyzeOutcome("paper", areq.req.paper).t = "return"
    /\ AnalyzeOutcome("citations", areq.req.citations).t = "return"
    /\ AnalyzeOutcome("gaps", areq.req.gaps).t = "return"

\* C11: once extraction and the three analysis calls have succeeded, the
\* response is the success payload with paper_id, file_url and the three
\* analysis results, whether or not the record could be built and inserted.
C11_SaveFailureStillSucceeds ==
    ReachedSave =>
        /\ areq.resp.status = 200
        /\ areq.resp.has_payload
        /\ areq.resp.payload =
              [paper_id |-> 1, file_url |-> <<"local://">> \o areq.req.filename,
               paper_analysis |-> AnalyzeOutcome("paper", areq.req.paper).v,
               citation_analysis |-> AnalyzeOutcome("citations", areq.req.citations).v,
               gap_analysis |-> AnalyzeOutcome("gaps", areq.req.gaps).v]

\* an insert that raised, answered with the payload and no row written
C11_Witness ==
    /\ ReachedSave
    /\ areq.req.insert = "raise"
    /\ areq.resp.inserted
    /\ areq.resp.rows = <<>>
    /\ areq.resp.status = 200

\* msg occurs in detail as a run of consecutive parts
Embeds(detail, msg) ==
    \E i \in 1..(Len(detail) - Len(msg) + 1) : SubSeq(detail, i, i + Len(msg) - 1) = msg

\* the first call of the pipeline that fails, "none" if none does
FirstFailure ==
    CASE extract_text(areq.req.ocr).t = "raise"                       -> "extract"
      [] AnalyzeOutcome("paper", areq.req.paper).t = "raise"          -> "paper"
      [] AnalyzeOutcome("citations", areq.req.citations).t = "raise"  -> "citations"
      [] AnalyzeOutcome("gaps", areq.req.gaps).t = "raise"            -> "gaps"
      [] OTHER                                                        -> "none"

\* the provider itself raised in the first call that fails
ProviderRaised ==
    CASE FirstFailure = "extract"   -> areq.req.ocr.t = "raise"
      [] FirstFailure = "paper"     -> areq.req.paper.t = "raise"
      [] FirstFailure = "citations" -> areq.req.citations.t = "raise"
      [] FirstFailure = "gaps"      -> areq.req.gaps.t = "raise"
      [] OTHER                      -> FALSE

\* C12: if text extraction or one of the three analysis calls fails, the
\* request is answered 500, the detail holds the provider's message behind the
\* wrapper's prefix, and there is no payload.
C12_ProviderFailureIs500 ==
    (/\ areq.served
     /\ SupportedFormat(areq.req.filename)
     /\ areq.req.read = "ok"
     /\ FirstFailure # "none")
        => /\ areq.resp.status = 500
           /\ ~areq.resp.has_payload
           /\ areq.resp.rows = <<>>
           /\ Len(areq.resp.detail) > 1
           /\ Head(areq.resp.detail) =
                 (IF FirstFailure = "extract" THEN EXTRACTION_PREFIX
                  ELSE ErrorPrefix(FirstFailure))
           /\ ProviderRaised => Embeds(areq.resp.detail, <<"provider error">>)

\* the vision call of an image raised and the request was answered 500
C12_Witness ==
    /\ areq.served
    /\ areq.req.ocr.t = "raise"
    /\ areq.resp.status = 500
    /\ areq.resp.detail = <<EXTRACTION_PREFIX, "provider error">>

\* a is a prefix of b
IsPrefix(a, b) == Len(a) <= Len(b) /\ SubSeq(b, 1, Len(a)) = a

NoSecret == ~auth.env.set \/ auth.env.cs = <<>>

\* C13: on every gated route the check answers 500 when no secret is
\* configured, whatever the token; 401 when a secret is configured and the
\* token differs from it; and lets the request in only when they are equal.
C13_VerifyApiKey ==
    auth.route \in GatedRoutes =>
        /\ NoSecret => (auth.status = 500 /\ ~auth.entered)
        /\ (~NoSecret /\ auth.token # auth.env.cs) => (auth.status = 401 /\ ~auth.entered)
        /\ auth.entered <=> (~NoSecret /\ auth.token = auth.env.cs)

\* a token that differs from the configured key only by a trailing blank
C13_Witness ==
    /\ auth.route \in GatedRoutes
    /\ auth.env = EnvSet(<<"k", "1">>)
    /\ auth.token = <<"k", "1", " ">>
    /\ auth.status = 401

\* C15: sanitizing a sanitized value changes nothing.
C15_Idempotent == san.called => sanitize_for_db(san.out) = san.out

\* a nested value that sanitizing changed
C15_Witness ==
    /\ san.called
    /\ san.arg.ty = "dict"
    /\ san.out # san.arg
    /\ sanitize_for_db(san.out) = san.out

\* the value holds no tuple and no object: it is what JSON can hold
RECURSIVE JsonShaped(_)
JsonShaped(v) ==
    CASE v.ty = "dict" -> \A i \in 1..Len(v.items) : JsonShaped(v.items[i][2])
      [] v.ty = "list" -> \A i \in 1..Len(v.elems) : JsonShaped(v.elems[i])
      [] OTHER         -> v.ty \in {"none", "int", "str"}

\* the characters of cs that are not of codepoint 0-31 or 127, in order
Kept(cs) == SelectSeq(cs, LAMBDA c : c > 31 /\ c # 127)

\* every string at a value or element position of a is, at the same position
\* of b, the string of its kept characters
RECURSIVE ScrubbedAt(_, _)
ScrubbedAt(a, b) ==
    CASE a.ty = "str"  -> b = PStr(Kept(a.cs))
      [] a.ty = "dict" ->
            /\ b.ty = "dict" /\ Len(b.items) = Len(a.items)
            /\ \A i \in 1..Len(a.items) : ScrubbedAt(a.items[i][2], b.items[i][2])
      [] a.ty = "list" ->
            /\ b.ty = "list" /\ Len(b.elems) = Len(a.elems)
            /\ \A i \in 1..Len(a.elems) : ScrubbedAt(a.elems[i], b.elems[i])
      [] OTHER -> TRUE

\* every string that occurs in v, keys included
RECURSIVE StringsOf(_)
StringsOf(v) ==
    CASE v.ty = "str"  -> {v.cs}
      [] v.ty = "dict" ->
            UNION {{v.items[i][1]} \cup StringsOf(v.items[i][2]) : i \in 1..Len(v.items)}
      [] v.ty \in {"list", "tuple"} -> UNION {StringsOf(v.elems[i]) : i \in 1..Len(v.elems)}
      [] OTHER -> {}

RECURSIVE SameShape(_, _)
SameShape(a, b) ==
    CASE a.ty = "none" -> b = PNone
      [] a.ty = "str"  -> b.ty = "str"
      [] a.ty = "dict" ->
            /\ b.ty = "dict" /\ Len(b.items) = Len(a.items)
            /\ \A i \in 1..Len(a.items) :
                  /\ b.items[i][1] = a.items[i][1]
                  /\ SameShape(a.items[i][2], b.items[i][2])
      [] a.ty = "list" ->
            /\ b.ty = "list" /\ Len(b.elems) = Len(a.elems)
            /\ \A i \in 1..Len(a.elems) : SameShape(a.elems[i], b.elems[i])
      [] OTHER -> b = a

\* C17: the result has the keys, lengths and positions of the input, scalars
\* and None come back as they are, and the input is as it was.
C17_ShapePreserved ==
    san.called => (SameShape(san.arg, san.out) /\ san.after = san.arg)

\* a dict of two keys, one of them with a control character, whose values
\* changed
C17_Witness ==
    /\ san.called
    /\ san.arg.ty = "dict"
    /\ Len(san.arg.items) = 2
    /\ san.arg.items[2][1] = <<107, 0>>
    /\ san.out.items[2][1] = <<107, 0>>
    /\ san.out # san.arg

\* C18: prepare_for_supabase returns; a dict- or list-valued field that
\* json.dumps rejects holds the text of its sanitized value, and every other
\* field holds its sanitized value.
C18_UnserializableFieldBecomesText ==
    (prep.called /\ prep.arg.ty = "dict") =>
        /\ prep.out.t = "return"
        /\ prep.out.v.ty = "dict"
        /\ Len(prep.out.v.items) = Len(prep.arg.items)
        /\ \A i \in 1..Len(prep.arg.items) :
              /\ prep.out.v.items[i][1] = prep.arg.items[i][1]
              /\ prep.out.v.items[i][2] =
                    (IF /\ sanitize_for_db(prep.arg.items[i][2]).ty \in {"dict", "list"}
                        /\ json_dumps(sanitize_for_db(prep.arg.items[i][2])).t = "raise"
                     THEN PStr(Repr(sanitize_for_db(prep.arg.items[i][2])))
                     ELSE sanitize_for_db(prep.arg.items[i][2]))

\* {"k": [set()], "f": "a\x00b\x1fc"} comes back as
\* {"k": "[set()]", "f": "abc"}
C18_Witness ==
    /\ prep.called
    /\ prep.arg = PDict(<<<<(<<107>>), PList(<<PObj>>)>>, <<(<<102>>), PStr(<<97, 0, 98, 31, 99>>)>>>>)
    /\ prep.out.t = "return"
    /\ prep.out.v =
          PDict(<<<<(<<107>>), PStr(<<91, 115, 101, 116, 40, 41, 93>>)>>,
                  <<(<<102>>), PStr(<<97, 98, 99>>)>>>>)

\* C19: while the handler of one request is inside a provider call that has
\* not returned, every other request whose handler has started and not
\* finished can take its next step.
C19_OthersProgress ==
    \A r \in Requests, q \in Requests :
        (r # q /\ rpc[r] \in ProviderCalls /\ rpc[q] \in {"reading", "ready"})
            => ENABLED RequestStep(q)

\* reading the document failed: it did not open, or a page raised or gave None
PdfFailed == pdf.doc.open = "raise" \/ \E i \in 1..Len(pdf.doc.pages) : pdf.doc.pages[i].t # "text"

\* C20: PDF extraction returns; for page text that is empty or blank it
\* returns the sentinel; after a failure it returns the sentinel or the text
\* of the pages read before the failure.
C20_SentinelOrPartial ==
    pdf.t # "none" =>
        /\ pdf.t = "return"
        /\ (~PdfFailed /\ StripsToEmpty(ReadPages(pdf.doc.pages, 1, <<>>).text))
              => pdf.text = SENTINEL
        /\ PdfFailed =>
              \/ pdf.text = SENTINEL
              \/ pdf.text = ReadPages(pdf.doc.pages, 1, <<>>).text

\* the name ends in one of the four accepted endings, character for character
EndsInAccepted(name) ==
    \E e \in {<<".", "j", "p", "g">>, <<".", "j", "p", "e", "g">>, <<".", "p", "n", "g">>,
               <<".", "p", "d", "f">>} :
        /\ Len(name) >= Len(e)
        /\ \A i \in 1..Len(e) : name[Len(name) - Len(e) + i] = e[i]

\* C21: an upload whose name does not end in .jpg, .jpeg, .png or .pdf is
\* answered 400 with no operation issued, not even the read; an upload whose
\* name has one of these endings is not answered 400.
C21_UnsupportedFormatIs400 ==
    areq.served =>
        IF EndsInAccepted(areq.req.filename)
        THEN areq.resp.status # 400
        ELSE /\ areq.resp.status = 400
             /\ areq.ops = <<>>
             /\ ~areq.resp.inserted
             /\ astored = <<>>

\* a name with an accepted ending that is not last
C21_Witness ==
    /\ areq.served
    /\ areq.req.filename = <<"f", "1", ".", "p", "d", "f", ".", "t", "x", "t">>
    /\ areq.resp.status = 400
    /\ areq.ops = <<>>

\* the nested fields and the top-level fields derived from them
DerivedFields ==
    {<<KEY_BASIC_INFO, KEY_TITLE, KEY_TITLE>>, <<KEY_BASIC_INFO, KEY_AUTHORS, KEY_AUTHORS>>,
     <<KEY_BASIC_INFO, KEY_YEAR, KEY_YEAR>>, <<KEY_BASIC_INFO, KEY_TYPE, KEY_PAPER_TYPE>>,
     <<KEY_ANALYSIS, KEY_RELEVANCE, KEY_RELEVANCE>>}

\* the blob of dict d holds field k in its part `part`
NestedPresent(d, part, k) ==
    /\ PHas(d, KEY_PAPER_ANALYSIS)
    /\ PGet(d, KEY_PAPER_ANALYSIS).ty = "dict"
    /\ PHas(PGet(d, KEY_PAPER_ANALYSIS), part)
    /\ PGet(PGet(d, KEY_PAPER_ANALYSIS), part).ty = "dict"
    /\ PHas(PGet(PGet(d, KEY_PAPER_ANALYSIS), part), k)

NestedValue(d, part, k) == PGet(PGet(PGet(d, KEY_PAPER_ANALYSIS), part), k)

\* C22: in every update the route hands to the store, updated_at is the
\* current time; a metadata field present in the supplied paper_analysis is
\* at the top level with the (sanitized) nested value, whatever the request
\* supplied at the top level; a field whose nested counterpart is absent is
\* at the top level only if the request supplied it, with the value supplied.
C22_MetadataFromBlob ==
    upd.sent =>
        /\ upd.update.ty = "dict"
        /\ PHas(upd.update, KEY_UPDATED_AT)
        /\ PGet(upd.update, KEY_UPDATED_AT) = NOW
        /\ \A f \in DerivedFields :
              IF NestedPresent(upd.body, f[1], f[2])
              THEN /\ PHas(upd.update, f[3])
                   /\ PGet(upd.update, f[3]) = sanitize_for_db(NestedValue(upd.body, f[1], f[2]))
                   /\ PGet(upd.update, f[3]) = NestedValue(upd.update, f[1], f[2])
              ELSE /\ PHas(upd.update, f[3]) <=> PHas(upd.body, f[3])
                   /\ PHas(upd.body, f[3])
                         => PGet(upd.update, f[3]) = sanitize_for_db(PGet(upd.body, f[3]))

\* a request that supplies title, paper_type and relevance_score at the top
\* level and a blob with a title only: the title is overridden, the other two
\* stay, authors and year are not added
C22_Witness ==
    /\ upd.sent
    /\ upd.status = 200
    /\ NestedPresent(upd.body, KEY_BASIC_INFO, KEY_TITLE)
    /\ ~NestedPresent(upd.body, KEY_BASIC_INFO, KEY_TYPE)
    /\ PHas(upd.body, KEY_TITLE)
    /\ PGet(upd.body, KEY_TITLE) = PStr(<<79, 108, 100>>)
    /\ PGet(upd.update, KEY_TITLE) = PStr(<<78>>)
    /\ PGet(upd.update, KEY_PAPER_TYPE) = PStr(<<111>>)
    /\ ~PHas(upd.update, KEY_AUTHORS)

\* an integer between 1 and 10
ValidScore(v) == IsLeaf(v) /\ v.ty = "num" /\ v.n \in 1..10

\* the paper analysis pa supplies no relevance_score
SuppliesNoScore(pa) ==
    ~IsLeaf(pa) /\ ("analysis" \in DOMAIN pa => "relevance_score" \notin DOMAIN pa.analysis)

\* C23: every record stored by analyze or batch-analyze has a relevance_score
\* that is an integer between 1 and 10, and 5 when the paper analysis of its
\* upload supplies none.
C23_ScoreInRange ==
    /\ \A i \in 1..Len(astored) :
          /\ ValidScore(astored[i].relevance_score)
          /\ SuppliesNoScore(areq.resp.payload.paper_analysis)
                => astored[i].relevance_score = JNum(5)
    /\ \A i \in 1..Len(stored) :
          /\ ValidScore(stored[i].relevance_score)
          /\ \A j \in 1..Len(files) :
                (files[j].filename = stored[i].filename
                    /\ SuppliesNoScore(AnalyzeOutcome("paper", files[j].paper).v))
                   => stored[i].relevance_score = JNum(5)

\* the external operations in the order the spec fixes
FixedOrder ==
    <<"extract_text", "analyze_paper", "analyze_citations", "analyze_research_gaps",
      "insert">>

\* the external operations of a log of operation names, the local read left out
External(log) == SelectSeq(log, LAMBDA o : o # "read")

\* the operations the batch log holds for file i
OpsOfFile(i) ==
    LET mine == SelectSeq(ops, LAMBDA o : o[1] = i)
    IN  [k \in 1..Len(mine) |-> mine[k][2]]

\* the position in FixedOrder of the first call that raises, 0 if none does
FirstRaise(extractRaises, paper, citations, gaps) ==
    IF extractRaises THEN 1
    ELSE IF AnalyzeOutcome("paper", paper).t = "raise" THEN 2
    ELSE IF AnalyzeOutcome("citations", citations).t = "raise" THEN 3
    ELSE IF AnalyzeOutcome("gaps", gaps).t = "raise" THEN 4
    ELSE 0

\* seq is a prefix of FixedOrder that ends with the call that raised, if one
\* did: the order is kept, nothing is issued twice, nothing follows a failure
\* and the insert follows the three analyses
InOrderOnce(seq, raisedAt) ==
    /\ Len(seq) <= Len(FixedOrder)
    /\ \A k \in 1..Len(seq) : seq[k] = FixedOrder[k]
    /\ raisedAt > 0 => Len(seq) <= raisedAt

\* C25: in an analyze request and for every file of a batch, the external
\* operations issued are a prefix of extraction, paper analysis, citation
\* analysis, gap analysis, insert, each at most once, and none is issued
\* after one that raised.
C25_FixedOrderNoRetry ==
    /\ areq.served =>
          InOrderOnce(External(areq.ops),
                      FirstRaise(areq.req.ocr.t = "raise", areq.req.paper,
                                 areq.req.citations, areq.req.gaps))
    /\ \A i \in 1..Len(files) :
          InOrderOnce(External(OpsOfFile(i)),
                      FirstRaise(files[i].extract = "raise", files[i].paper,
                                 files[i].citations, files[i].gaps))

\* a batch whose first file fails in the citation analysis and whose second
\* file is stored
C25_Witness ==
    /\ pc = "done"
    /\ Len(files) = 2
    /\ External(OpsOfFile(1)) = <<"extract_text", "analyze_paper", "analyze_citations">>
    /\ External(OpsOfFile(2)) = FixedOrder
    /\ Len(errors) = 1
    /\ Len(stored) = 1

\* analyses a and b of a source paper differ at most in analysis.methods and
\* analysis.main_findings
DifferOnlyInKeywords(a, b) ==
    /\ IsMapping(a) /\ IsMapping(b)
    /\ DOMAIN a = DOMAIN b
    /\ \A k \in DOMAIN a \ {"analysis"} : a[k] = b[k]
    /\ "analysis" \in DOMAIN a
          => /\ IsMapping(a.analysis) /\ IsMapping(b.analysis)
             /\ \A k \in (DOMAIN a.analysis \cup DOMAIN b.analysis)
                            \ {"methods", "main_findings"} :
                   /\ k \in DOMAIN a.analysis
                   /\ k \in DOMAIN b.analysis
                   /\ a.analysis[k] = b.analysis[k]

\* C24: the response to a similar-papers request is the response the same
\* request gets for any source paper that differs from its own only in
\* analysis.methods and analysis.main_findings.
C24_KeywordsDoNotMatter ==
    (sim.srcYield = "row" /\ sim.fetchYield = "rows") =>
        \A pa \in SourceAnalyses :
            DifferOnlyInKeywords(sim.source.paper_analysis, pa) =>
                /\ SimilarResponse("row", SourcePaper(pa), "rows", sim.cands, sim.limit).status
                      = sim.status
                /\ SimilarResponse("row", SourcePaper(pa), "rows", sim.cands, sim.limit).body
                      = sim.body

\* the title of file f's own paper analysis, or the default
OwnTitle(f) ==
    IF /\ IsMapping(AnalyzeOutcome("paper", f.paper).v)
       /\ IsMapping(Get(AnalyzeOutcome("paper", f.paper).v, "basic_info", EmptyObj))
    THEN Get(Get(AnalyzeOutcome("paper", f.paper).v, "basic_info", EmptyObj), "title",
             JStr("Untitled Paper"))
    ELSE JStr("Untitled Paper")

\* file f lands in results when it is the first file of a batch
InResultsWhenFirst(f) ==
    /\ SupportedFormat(f.filename)
    /\ f.extract = "ok"
    /\ AnalyzeOutcome("paper", f.paper).t = "return"
    /\ AnalyzeOutcome("citations", f.citations).t = "return"
    /\ AnalyzeOutcome("gaps", f.gaps).t = "return"
    /\ AppendResult(<<>>, <<>>, f.filename, 1,
                    BuildRecord(AnalyzeOutcome("paper", f.paper).v, Unbound).basic_info
                   ).results # <<>>

\* C26: in the response of a batch every results entry has the title of its
\* own file's paper analysis (or the default), and a file is in results
\* exactly if it would be as the first file of a batch.
C26_EntryFromOwnFile ==
    (pc = "done" /\ bresp.status = 200) =>
        \A i \in 1..Len(files) :
            /\ \A k \in 1..Len(bresp.results) :
                  bresp.results[k].filename = files[i].filename
                      => bresp.results[k].title = OwnTitle(files[i])
            /\ (\E k \in 1..Len(bresp.results) :
                    bresp.results[k].filename = files[i].filename)
                  <=> InResultsWhenFirst(files[i])

====
